---- MODULE Spec2Model ----
(***************************************************************************)
(* Full-duplex voice conversation core of openclaw-talking-head:           *)
(*   - ConversationStateMachine   (src/lib/voice/conversation-state.ts)    *)
(*   - BargeInDetector            (src/unnamed/part_009, lines 28-202)     *)
(*   - VoiceCoordinator           (src/lib/voice/VoiceCoordinator.ts)      *)
(* JavaScript is single-threaded: every handler body between two awaits    *)
(* is one atomic action.                                                   *)
(***************************************************************************)
EXTENDS Integers, Sequences, FiniteSets, TLC

(***************************************************************************)
(* Bounds of the model (not program constants).                            *)
(***************************************************************************)
MaxTurns == 2        \* final transcripts that start a processUserInput call
MaxChunks == 1       \* data lines one TTS stream delivers when turns overlap
MaxLifecycle == 2    \* start()/stop() calls of the host
MaxTicks == 1        \* clock advances
MaxRequests == 4     \* accepted transitions of the stand-alone state machine
DeepChunks == 3      \* data lines of the stream when a single turn is followed
DeepLifecycle == 3   \* start()/stop() calls when a single turn is followed

(***************************************************************************)
(* Program constants.                                                      *)
(***************************************************************************)
maxHistorySize == 50
maxRetries == 3
minTranscriptLength == 3
debounceMs == 300
energyThreshold == 20    \* 0.02, in thousandths
vadWindowMs == 200
graceMs == 300

States == {"IDLE", "LISTENING", "THINKING", "SPEAKING", "BARGE_IN"}
Reasons == {"undefined", "Reset"}
AllCallbacks == {"onStateChange", "onBargeIn", "onListening", "onSpeaking", "onThinking"}

VARIABLES
    \* ConversationStateMachine
    state,              \* this.state
    history,            \* this.history
    callbacks,          \* names of the callbacks the machine was constructed with
    lastCall,           \* observation of the most recent transition() call
    \* BargeInDetector
    lastBargeIn,        \* this.lastBargeIn
    partialTranscript,  \* this.partialTranscript
    onBargeIn,          \* this.onBargeIn: "null", "handleBargeIn" or "observer"
    energyHistory,      \* this.energyHistory, in thousandths
    delivered,          \* the events an "observer" callback has been called with
    detCall,            \* the most recent call a client made on the detector
    heard,              \* the transcript event onTranscript was last called with
    \* VoiceCoordinator
    stt,                \* this.stt: "null", "active", or "inert" (recognition never started)
    audioContext,       \* this.audioContext: "null" or "open"
    configAudioContext, \* TRUE iff config.audioContext was supplied
    audioQueue,         \* this.audioQueue
    isPlaying,          \* this.isPlaying
    currentSourceNode,  \* this.currentSourceNode
    \* environment: audio nodes, async calls, clock, timers
    sounding,           \* source nodes started and neither finished nor stopped
    endedPending,       \* stopped nodes whose ended event is not yet dispatched
    pc,                 \* per turn: where its processUserInput call is suspended, or
                        \* how it returned: "done", "ended" (the stream closed
                        \* without an end marker), "caught" (through a catch block)
    nChunks,            \* per turn: data lines its TTS stream has delivered
    now,                \* Date.now()
    timers,             \* deadlines of the pending setTimeout callbacks
    lifecycle,          \* start()/stop() calls so far
    conversationId,     \* this.conversationId
    \* observation
    obs,                \* per turn: the requests issued and the observers notified
    startResult,        \* the outcome of the most recent start() call
    cancelled,          \* stopAudioPlayback() has run
    stale,              \* turns whose speaking a barge-in or stop() cancelled
    firedIn,            \* the states in which a grace callback has run
    \* BrowserSTT
    recognition,        \* this.recognition: "null", or the session's phase: "idle",
                        \* "starting" (start() called, onstart not yet dispatched),
                        \* "running", "stopping" (stop() called, onend not yet dispatched)
    isListening,        \* this.isListening
    continuous,         \* this.config.continuous
    sttSupported,       \* BrowserSTT.isSupported()
    restartTimers,      \* pending restart callbacks of recognition.onend
    endedAlone,         \* the last session ended without stop() and none was started since
    sttCalls,           \* start()/stop() calls so far
    sttOnError,         \* callbacks.onError calls so far
    \* OpenAIService.retryWithBackoff
    retryPc,            \* where the call is: "idle", "calling" (awaiting fn()),
                        \* "sleeping", "returned", "thrown"
    attempt,            \* the loop variable
    lastError,          \* the local lastError
    retryCalls,         \* the outcome of each invocation of fn so far
    retryDelays,        \* the delay of each sleep so far, in ms
    retryOutcome,       \* what the call returned or threw
    \* simulateSpeech (TalkingHead/morphAuthoring.ts)
    isSpeaking,         \* state.isSpeaking
    speechTimeouts,     \* state.speechTimeouts: the timeout ids it holds
    speechTimers,       \* the end-of-speech timeouts pending in the browser, by simulation
    frames,             \* the simulations whose animateSpeech has an animation frame requested
    sims,               \* per simulateSpeech call: startTime, estimatedDuration, and
                        \* whether state.isSpeaking was set when it was called
    speechNow,          \* Date.now() relative to the page's load, in ms
    jawWriter,          \* the simulation whose loop last assigned jawBone.rotation.x
    \* LipSyncEngine
    previousWeights,    \* this.previousWeights, each weight in units of 1/One
    smoothingFactor,    \* this.smoothingFactor, in tenths
    lipPolls,           \* getCurrentViseme() calls so far
    lipLast             \* the most recent poll: the band levels read (in tenths), the
                        \* weights mapToVisemes returned, previousWeights before it, and
                        \* whether the poll before returned the same weights

coordinatorVars == <<state, history, callbacks, lastCall, lastBargeIn, partialTranscript,
                     onBargeIn, energyHistory, delivered, detCall, heard, stt, audioContext,
                     configAudioContext, audioQueue, isPlaying,
                     currentSourceNode, sounding, endedPending, pc, nChunks, now, timers,
                     lifecycle, conversationId, obs, startResult, cancelled, stale, firedIn>>

\* BrowserSTT
sttVars == <<recognition, isListening, continuous, sttSupported, restartTimers,
             endedAlone, sttCalls, sttOnError>>

\* OpenAIService.retryWithBackoff
retryVars == <<retryPc, attempt, lastError, retryCalls, retryDelays, retryOutcome>>

\* the components modelled on their own
\* simulateSpeech
speechVars == <<isSpeaking, speechTimeouts, speechTimers, frames, sims, speechNow, jawWriter>>

\* LipSyncEngine
lipVars == <<previousWeights, smoothingFactor, lipPolls, lipLast>>

standaloneVars == <<sttVars, retryVars, speechVars, lipVars>>

vars == <<coordinatorVars, standaloneVars>>

(***************************************************************************)
(* ConversationStateMachine                                                *)
(***************************************************************************)
validTransitions ==
    [s \in States |->
        CASE s = "IDLE"      -> {"LISTENING", "THINKING"}
          [] s = "LISTENING" -> {"THINKING", "IDLE", "SPEAKING"}
          [] s = "THINKING"  -> {"SPEAKING", "LISTENING", "IDLE"}
          [] s = "SPEAKING"  -> {"LISTENING", "BARGE_IN", "IDLE"}
          [] s = "BARGE_IN"  -> {"LISTENING", "IDLE"}]

\* mutant: the BARGE_IN row has lost its IDLE entry
isValidTransitionNoBargeExit(from, to) ==
    to \in validTransitions[from] /\ ~(from = "BARGE_IN" /\ to = "IDLE")

\* mutant: the table also lets SPEAKING go to THINKING
isValidTransitionSlip(from, to) ==
    to \in validTransitions[from] \/ (from = "SPEAKING" /\ to = "THINKING")

isValidTransition(from, to) == to \in validTransitions[from]

\* mutant: pop() instead of shift(): the newest entry is dropped
PushHistoryDropsNewest(h, entry) ==
    LET pushed == Append(h, entry)
    IN  IF Len(pushed) > maxHistorySize THEN SubSeq(pushed, 1, maxHistorySize) ELSE pushed

\* history.push(transition); if (history.length > maxHistorySize) history.shift()
PushHistory(h, entry) ==
    LET pushed == Append(h, entry)
    IN  IF Len(pushed) > maxHistorySize THEN Tail(pushed) ELSE pushed

\* the state-specific callback of the switch statement
SpecificCallback(to) ==
    CASE to = "BARGE_IN"  -> <<"onBargeIn">>
      [] to = "LISTENING" -> <<"onListening">>
      [] to = "SPEAKING"  -> <<"onSpeaking">>
      [] to = "THINKING"  -> <<"onThinking">>
      [] OTHER            -> <<>>

\* mutant: the state-specific callback runs before the generic one
NotificationsSpecificFirst(to, cbs, histLen) ==
    LET wanted == SpecificCallback(to) \o <<"onStateChange">>
        fired  == SelectSeq(wanted, LAMBDA c : c \in cbs)
    IN  [i \in 1..Len(fired) |-> [cb |-> fired[i], sawState |-> to, sawHistLen |-> histLen]]

\* the callbacks a successful transition invokes, in order, each with the
\* state and history length it observes
Notifications(to, cbs, histLen) ==
    LET wanted == <<"onStateChange">> \o SpecificCallback(to)
        fired  == SelectSeq(wanted, LAMBDA c : c \in cbs)
    IN  [i \in 1..Len(fired) |-> [cb |-> fired[i], sawState |-> to, sawHistLen |-> histLen]]

\* mutant: an accepted transition is recorded but the state is not assigned
transitionKeepsState(to, reason) ==
    LET from == state
    IN  IF ~isValidTransition(from, to)
        THEN /\ UNCHANGED <<state, history>>
             /\ lastCall' = [from |-> from, to |-> to, result |-> FALSE, notified |-> <<>>]
        ELSE LET h == PushHistory(history,
                        [from |-> from, to |-> to, reason |-> reason])
             IN  /\ history' = h
                 /\ UNCHANGED state
                 /\ lastCall' = [from |-> from, to |-> to, result |-> TRUE,
                                 notified |-> Notifications(to, callbacks, Len(h))]

\* mutant: the transition is recorded before it is validated
transitionRecordsRejected(to, reason) ==
    LET from == state
        h == PushHistory(history, [from |-> from, to |-> to, reason |-> reason])
    IN  IF ~isValidTransition(from, to)
        THEN /\ UNCHANGED state
             /\ history' = h
             /\ lastCall' = [from |-> from, to |-> to, result |-> FALSE, notified |-> <<>>]
        ELSE /\ history' = h
             /\ state' = to
             /\ lastCall' = [from |-> from, to |-> to, result |-> TRUE,
                             notified |-> Notifications(to, callbacks, Len(h))]

\* transition(to, reason): the whole method, as the effect on the machine
transition(to, reason) ==
    LET from == state
    IN  IF ~isValidTransition(from, to)
        THEN /\ UNCHANGED <<state, history>>
             /\ lastCall' = [from |-> from, to |-> to, result |-> FALSE, notified |-> <<>>]
        ELSE LET h == PushHistory(history,
                        [from |-> from, to |-> to, reason |-> reason])
             IN  /\ history' = h
                 /\ state' = to
                 /\ lastCall' = [from |-> from, to |-> to, result |-> TRUE,
                                 notified |-> Notifications(to, callbacks, Len(h))]

NoTransition == UNCHANGED <<state, history, lastCall>>

(***************************************************************************)
(* Transcript text: a sequence of characters; trim() as String.trim().     *)
(***************************************************************************)
IsSpace(c) == c \in {" ", "\t", "\n"}

RECURSIVE TrimLeft(_)
TrimLeft(s) == IF s # <<>> /\ IsSpace(Head(s)) THEN TrimLeft(Tail(s)) ELSE s

RECURSIVE TrimRight(_)
TrimRight(s) ==
    IF s # <<>> /\ IsSpace(s[Len(s)]) THEN TrimRight(SubSeq(s, 1, Len(s) - 1)) ELSE s

trim(s) == TrimRight(TrimLeft(s))

\* the conversation id the chat collaborator returns to turn t: the ids are
\* opaque to the coordinator, so every response carries one of its own
IdNames == <<"X", "Y", "Z", "W">>
ResponseId(t) == IdNames[t]

\* the texts the transcript source and the chat collaborator deliver
Texts == { <<" ">>, <<" ", "h", "i", " ">>, <<"h", "e", "y">> }

(***************************************************************************)
(* VoiceCoordinator: audio playback                                        *)
(***************************************************************************)
NoNode == <<>>
Turns == 1..MaxTurns
Buffer(t, k) == <<t, k>>

\* the playback fields as one record, so that the private methods compose
Playback == [q |-> audioQueue, ip |-> isPlaying, cur |-> currentSourceNode,
             snd |-> sounding, pend |-> endedPending]

SetPlayback(a) ==
    /\ audioQueue' = a.q
    /\ isPlaying' = a.ip
    /\ currentSourceNode' = a.cur
    /\ sounding' = a.snd
    /\ endedPending' = a.pend

\* mutant: pop() instead of shift(): the newest queued buffer is played next
playNextInQueueNewest(a, ctx) ==
    IF a.q = <<>>
    THEN [a EXCEPT !.ip = FALSE]
    ELSE IF ctx = "null"
    THEN a
    ELSE [a EXCEPT !.ip = TRUE,
                   !.q = SubSeq(a.q, 1, Len(a.q) - 1),
                   !.cur = a.q[Len(a.q)],
                   !.snd = a.snd \cup {a.q[Len(a.q)]}]

\* playNextInQueue() with the audio context ctx
playNextInQueue(a, ctx) ==
    IF a.q = <<>>
    THEN [a EXCEPT !.ip = FALSE]
    ELSE IF ctx = "null"
    THEN a
    ELSE [a EXCEPT !.ip = TRUE,
                   !.q = Tail(a.q),
                   !.cur = Head(a.q),
                   !.snd = a.snd \cup {Head(a.q)}]

\* source.onended: this.currentSourceNode = null; this.playNextInQueue()
onended(a, ctx) == playNextInQueue([a EXCEPT !.cur = NoNode], ctx)

\* mutant: the pending queue is not cleared
stopAudioPlaybackKeepsQueue(a) ==
    LET n == a.cur
        halted == IF n # NoNode /\ n \in a.snd
                  THEN [a EXCEPT !.snd = a.snd \ {n}, !.pend = a.pend \cup {n}]
                  ELSE a
    IN  [halted EXCEPT !.cur = NoNode, !.ip = FALSE]

\* stopAudioPlayback(): stop() halts the node at once and queues its ended event
stopAudioPlayback(a) ==
    LET n == a.cur
        halted == IF n # NoNode /\ n \in a.snd
                  THEN [a EXCEPT !.snd = a.snd \ {n}, !.pend = a.pend \cup {n}]
                  ELSE a
    IN  [halted EXCEPT !.cur = NoNode, !.q = <<>>, !.ip = FALSE]

(***************************************************************************)
(* Initial states                                                          *)
(***************************************************************************)
StartTime == 1000    \* Date.now() at construction: far from lastBargeIn = 0
TickMs == 300        \* granularity of the clock

\* no call has been made on the detector yet
NoCall == [method |-> "none", at |-> 0, energy |-> 0, text |-> <<>>, isFinal |-> FALSE]

\* onTranscript has not been called yet
NoTranscript == [text |-> <<>>, isFinal |-> FALSE]

\* what a turn has issued and notified before it begins
NoObs == [chatId |-> "none", gotId |-> "none", tts |-> 0, pushed |-> 0, dropped |-> 0,
          onError |-> 0, onAudioStart |-> 0, onAudioComplete |-> 0]

\* a BrowserSTT nobody has started
STTAtRest ==
    /\ recognition = "null"
    /\ isListening = FALSE
    /\ restartTimers = 0
    /\ endedAlone = FALSE
    /\ sttCalls = 0
    /\ sttOnError = 0

\* no retryWithBackoff call has been made
NoError == [kind |-> "none", call |-> 0]

RetryAtRest ==
    /\ retryPc = "idle"
    /\ attempt = 0
    /\ lastError = NoError
    /\ retryCalls = <<>>
    /\ retryDelays = <<>>
    /\ retryOutcome = [kind |-> "none", value |-> NoError]

\* the stand-alone components as the coordinator's specifications leave them
\* no simulateSpeech call has been made (createSceneState)
SpeechAtRest ==
    /\ isSpeaking = FALSE
    /\ speechTimeouts = <<>>
    /\ speechTimers = {}
    /\ frames = {}
    /\ sims = <<>>
    /\ speechNow = 0
    /\ jawWriter = 0

\* a LipSyncEngine as constructed
NoWeights == [key \in {} |-> 0]

NoPoll == [low |-> 0, mid |-> 0, high |-> 0, volume |-> 0, weights |-> NoWeights,
           before |-> NoWeights, same |-> FALSE]

LipAtRest ==
    /\ previousWeights = NoWeights
    /\ smoothingFactor = 3
    /\ lipPolls = 0
    /\ lipLast = NoPoll

AtRest ==
    /\ STTAtRest
    /\ RetryAtRest
    /\ SpeechAtRest
    /\ LipAtRest
    /\ continuous = TRUE
    /\ sttSupported = TRUE

\* the fields of the machine, the detector and the coordinator after construction
InitCore ==
    /\ state = "IDLE"
    /\ history = <<>>
    /\ lastCall = [from |-> "none", to |-> "none", result |-> FALSE, notified |-> <<>>]
    /\ lastBargeIn = 0
    /\ partialTranscript = <<>>
    /\ energyHistory = <<>>
    /\ delivered = <<>>
    /\ detCall = NoCall
    /\ heard = NoTranscript
    /\ stt = "null"
    /\ audioContext = "null"
    /\ audioQueue = <<>>
    /\ isPlaying = FALSE
    /\ currentSourceNode = NoNode
    /\ sounding = {}
    /\ endedPending = {}
    /\ pc = [t \in Turns |-> "idle"]
    /\ nChunks = [t \in Turns |-> 0]
    /\ now = StartTime
    /\ timers = {}
    /\ lifecycle = 0
    /\ conversationId = "null"
    /\ obs = [t \in Turns |-> NoObs]
    /\ startResult = [call |-> 0, acquired |-> FALSE, outcome |-> "none", onError |-> 0]
    /\ cancelled = FALSE
    /\ stale = {}
    /\ firedIn = {}

InitFields ==
    /\ InitCore
    /\ AtRest

\* a stand-alone ConversationStateMachine constructed with every callback
InitSM ==
    /\ InitFields
    /\ callbacks = AllCallbacks
    /\ onBargeIn = "null"
    /\ configAudioContext = FALSE

\* new VoiceCoordinator(config, callbacks): the machine gets onStateChange only;
\* the detector's constructor keeps four config fields and drops onBargeIn
Init ==
    /\ InitFields
    /\ callbacks = {"onStateChange"}
    /\ onBargeIn = "null"
    /\ configAudioContext \in BOOLEAN

\* the coordinator with handleBargeIn registered through setBargeInCallback
InitWired ==
    /\ InitFields
    /\ callbacks = {"onStateChange"}
    /\ onBargeIn = "handleBargeIn"
    /\ configAudioContext \in BOOLEAN

(***************************************************************************)
(* BargeInDetector                                                         *)
(***************************************************************************)
\* mutant: every attempt is honoured
triggerBargeInNoDebounce(last, t) ==
    [last |-> t, honoured |-> TRUE]

\* triggerBargeIn(event) at time t: the debounce check and the timestamp update
triggerBargeIn(last, t) ==
    IF t - last < debounceMs
    THEN [last |-> last, honoured |-> FALSE]
    ELSE [last |-> t, honoured |-> TRUE]

\* mutant: the length is taken of the untrimmed text
processTranscriptUntrimmed(text, isFinal, partial, last, t) ==
    IF ~isFinal
    THEN LET trig == IF Len(text) >= minTranscriptLength
                     THEN triggerBargeIn(last, t)
                     ELSE [last |-> last, honoured |-> FALSE]
         IN  [partial |-> text, last |-> trig.last, honoured |-> trig.honoured]
    ELSE [partial |-> <<>>, last |-> last, honoured |-> FALSE]

\* processTranscript(text, isFinal) at time t on the detector fields
processTranscript(text, isFinal, partial, last, t) ==
    IF ~isFinal
    THEN LET trig == IF Len(trim(text)) >= minTranscriptLength
                     THEN triggerBargeIn(last, t)
                     ELSE [last |-> last, honoured |-> FALSE]
         IN  [partial |-> text, last |-> trig.last, honoured |-> trig.honoured]
    ELSE [partial |-> <<>>, last |-> last, honoured |-> FALSE]

\* Math.ceil(vadWindowMs / 256): the chunks the energy window holds
vadWindowSize == (vadWindowMs + 255) \div 256

RECURSIVE Sum(_)
Sum(q) == IF q = <<>> THEN 0 ELSE Head(q) + Sum(Tail(q))

\* getAverageEnergy()
getAverageEnergy(hist) ==
    IF Len(hist) = 0 THEN 0 ELSE Sum(hist) \div Len(hist)

\* Math.pow(x, 0.7) in hundredths, for the arguments the energies below give
PowSevenTenths == (50 :> 62) @@ (100 :> 100)

\* calculateConfidence(energy), in hundredths
calculateConfidence(energy) ==
    LET normalized == IF energy >= 3 * energyThreshold
                      THEN 100
                      ELSE (100 * energy) \div (3 * energyThreshold)
    IN  PowSevenTenths[normalized]

\* mutant: the window is never trimmed
processAudioChunkNoShift(energy, hist, last, t) ==
    LET window == Append(hist, energy)
        avgEnergy == getAverageEnergy(window)
        trig == IF avgEnergy > energyThreshold
                THEN triggerBargeIn(last, t)
                ELSE [last |-> last, honoured |-> FALSE]
    IN  [hist |-> window, last |-> trig.last, honoured |-> trig.honoured,
         event |-> [timestamp |-> t, reason |-> "energy",
                    confidence |-> IF avgEnergy > energyThreshold
                                   THEN calculateConfidence(avgEnergy) ELSE 0]]

\* mutant: a loud window calls back without going through the debounce
processAudioChunkUndebounced(energy, hist, last, t) ==
    LET pushed == Append(hist, energy)
        window == IF Len(pushed) > vadWindowSize THEN Tail(pushed) ELSE pushed
        avgEnergy == getAverageEnergy(window)
        loud == avgEnergy > energyThreshold
    IN  [hist |-> window, last |-> IF loud THEN t ELSE last, honoured |-> loud,
         event |-> [timestamp |-> t, reason |-> "energy",
                    confidence |-> IF loud THEN calculateConfidence(avgEnergy) ELSE 0]]

\* processAudioChunk(audioData) at time t, audioData given by its RMS energy
processAudioChunk(energy, hist, last, t) ==
    LET pushed == Append(hist, energy)
        window == IF Len(pushed) > vadWindowSize THEN Tail(pushed) ELSE pushed
        avgEnergy == getAverageEnergy(window)
        trig == IF avgEnergy > energyThreshold
                THEN triggerBargeIn(last, t)
                ELSE [last |-> last, honoured |-> FALSE]
    IN  [hist |-> window, last |-> trig.last, honoured |-> trig.honoured,
         event |-> [timestamp |-> t, reason |-> "energy",
                    confidence |-> IF avgEnergy > energyThreshold
                                   THEN calculateConfidence(avgEnergy) ELSE 0]]

\* mutant: either condition alone is enough
processCombinedEither(energy, text, isFinal, last, t) ==
    LET hasVoiceActivity == energy > energyThreshold
        hasTranscript == Len(trim(text)) >= minTranscriptLength
        trig == IF hasVoiceActivity \/ hasTranscript
                THEN triggerBargeIn(last, t)
                ELSE [last |-> last, honoured |-> FALSE]
    IN  [last |-> trig.last, honoured |-> trig.honoured,
         event |-> [timestamp |-> t, reason |-> "combined", confidence |-> 95]]

\* processCombined(audioData, text, isFinal) at time t
processCombined(energy, text, isFinal, last, t) ==
    LET hasVoiceActivity == energy > energyThreshold
        hasTranscript == Len(trim(text)) >= minTranscriptLength
        trig == IF hasVoiceActivity /\ hasTranscript
                THEN triggerBargeIn(last, t)
                ELSE [last |-> last, honoured |-> FALSE]
    IN  [last |-> trig.last, honoured |-> trig.honoured,
         event |-> [timestamp |-> t, reason |-> "combined", confidence |-> 95]]

\* mutant: the detector is consulted in every state
DetectInAnyState(text, isFinal) ==
    processTranscript(text, isFinal, partialTranscript, lastBargeIn, now)

\* what handleTranscript makes of the detector: consulted only in SPEAKING
Detect(text, isFinal) ==
    IF state = "SPEAKING"
    THEN processTranscript(text, isFinal, partialTranscript, lastBargeIn, now)
    ELSE [partial |-> partialTranscript, last |-> lastBargeIn, honoured |-> FALSE]

(***************************************************************************)
(* VoiceCoordinator: handlers                                              *)
(***************************************************************************)
\* the turns whose speakResponse call is awaiting its TTS fetch, a read or a decode
SpeakingTurns == {t \in Turns : pc[t] \in {"ttsFetch", "read", "decode"}}

\* mutant: no grace callback is scheduled
handleBargeInNoTimer ==
    /\ SetPlayback(stopAudioPlayback(Playback))
    /\ cancelled' = TRUE
    /\ stale' = stale \cup SpeakingTurns
    /\ transition("BARGE_IN", "undefined")
    /\ UNCHANGED timers

\* handleBargeIn(): stopAudioPlayback, transition, setTimeout(..., 300)
handleBargeIn ==
    /\ SetPlayback(stopAudioPlayback(Playback))
    /\ cancelled' = TRUE
    /\ stale' = stale \cup SpeakingTurns
    /\ transition("BARGE_IN", "undefined")
    /\ timers' = timers \cup {now + graceMs}

\* handleTranscript(text, false)
PartialTranscript(text) ==
    /\ stt = "active"
    /\ LET d == Detect(text, FALSE)
       IN  /\ partialTranscript' = d.partial
           /\ lastBargeIn' = d.last
           /\ IF d.honoured /\ onBargeIn = "handleBargeIn"
              THEN handleBargeIn
              ELSE /\ NoTransition
                   /\ UNCHANGED <<audioQueue, isPlaying, currentSourceNode, sounding,
                                  endedPending, cancelled, stale, timers>>
    /\ heard' = [text |-> text, isFinal |-> FALSE]
    /\ UNCHANGED <<callbacks, onBargeIn, energyHistory, delivered, detCall, stt,
                   audioContext, configAudioContext, standaloneVars, pc,
                   nChunks, now, lifecycle, conversationId, obs, startResult, firedIn>>

\* handleTranscript(text, true), up to the await of the chat fetch
FinalTranscript(text) ==
    /\ stt = "active"
    /\ LET d == Detect(text, TRUE)
       IN  /\ partialTranscript' = d.partial
           /\ lastBargeIn' = d.last
    /\ IF trim(text) # <<>>
       THEN /\ \E t \in Turns :
                 /\ pc[t] = "idle"
                 /\ \A u \in Turns : u < t => pc[u] # "idle"
                 /\ pc' = [pc EXCEPT ![t] = "chat"]
                 /\ obs' = [obs EXCEPT ![t].chatId = conversationId]
            /\ transition("THINKING", "undefined")
       ELSE /\ NoTransition
            /\ UNCHANGED <<pc, obs>>
    /\ heard' = [text |-> text, isFinal |-> TRUE]
    /\ UNCHANGED <<callbacks, onBargeIn, energyHistory, delivered, detCall, stt,
                   audioContext, configAudioContext, standaloneVars,
                   audioQueue, isPlaying, currentSourceNode, sounding, endedPending,
                   nChunks, now, timers, lifecycle, conversationId, startResult,
                   cancelled, stale, firedIn>>

\* what every step of a turn leaves alone
TurnFrame ==
    UNCHANGED <<callbacks, lastBargeIn, partialTranscript, onBargeIn, energyHistory,
                delivered, detCall, heard, stt, audioContext,
                configAudioContext, standaloneVars, now, timers, lifecycle, startResult, cancelled,
                stale, firedIn>>

AudioFrame ==
    UNCHANGED <<audioQueue, isPlaying, currentSourceNode, sounding, endedPending>>

\* mutant: the failure is swallowed, no observer hears of it
ChatFailsSilent(t) ==
    /\ pc[t] = "chat"
    /\ transition("LISTENING", "undefined")
    /\ pc' = [pc EXCEPT ![t] = "caught"]
    /\ UNCHANGED <<nChunks, conversationId, obs>>
    /\ AudioFrame
    /\ TurnFrame

\* processUserInput: the chat fetch rejects, is not ok, or carries data.error;
\* the catch block calls onError and transition('LISTENING')
ChatFails(t) ==
    /\ pc[t] = "chat"
    /\ obs' = [obs EXCEPT ![t].onError = @ + 1]
    /\ transition("LISTENING", "undefined")
    /\ pc' = [pc EXCEPT ![t] = "caught"]
    /\ UNCHANGED <<nChunks, conversationId>>
    /\ AudioFrame
    /\ TurnFrame

\* mutant: the returned conversation id is not stored
ChatReturnsForgetsId(t, text, id) ==
    /\ pc[t] = "chat"
    /\ UNCHANGED conversationId
    /\ IF trim(text) = <<>>
       THEN /\ transition("LISTENING", "undefined")
            /\ pc' = [pc EXCEPT ![t] = "done"]
            /\ obs' = [obs EXCEPT ![t].gotId = id]
       ELSE /\ transition("SPEAKING", "undefined")
            /\ pc' = [pc EXCEPT ![t] = "ttsFetch"]
            /\ obs' = [obs EXCEPT ![t].gotId = id,
                                  ![t].onAudioStart = @ + 1,
                                  ![t].tts = @ + 1]
    /\ UNCHANGED nChunks
    /\ AudioFrame
    /\ TurnFrame

\* mutant: a blank response is spoken like any other
ChatReturnsSpeaksBlank(t, text, id) ==
    /\ pc[t] = "chat"
    /\ conversationId' = id
    /\ transition("SPEAKING", "undefined")
    /\ pc' = [pc EXCEPT ![t] = "ttsFetch"]
    /\ obs' = [obs EXCEPT ![t].gotId = id,
                          ![t].onAudioStart = @ + 1,
                          ![t].tts = @ + 1]
    /\ UNCHANGED nChunks
    /\ AudioFrame
    /\ TurnFrame

\* processUserInput: the chat fetch returns text and conversation id; the id is
\* stored, then speakResponse(text) runs up to the await of the TTS fetch
ChatReturns(t, text, id) ==
    /\ pc[t] = "chat"
    /\ conversationId' = id
    /\ IF trim(text) = <<>>
       THEN /\ transition("LISTENING", "undefined")
            /\ pc' = [pc EXCEPT ![t] = "done"]
            /\ obs' = [obs EXCEPT ![t].gotId = id]
       ELSE /\ transition("SPEAKING", "undefined")
            /\ pc' = [pc EXCEPT ![t] = "ttsFetch"]
            /\ obs' = [obs EXCEPT ![t].gotId = id,
                                  ![t].onAudioStart = @ + 1,
                                  ![t].tts = @ + 1]
    /\ UNCHANGED nChunks
    /\ AudioFrame
    /\ TurnFrame

\* speakResponse: the TTS fetch rejects, is not ok, or has no body
TtsFetchFails(t) ==
    /\ pc[t] = "ttsFetch"
    /\ obs' = [obs EXCEPT ![t].onError = @ + 1]
    /\ transition("LISTENING", "undefined")
    /\ pc' = [pc EXCEPT ![t] = "caught"]
    /\ UNCHANGED <<nChunks, conversationId>>
    /\ AudioFrame
    /\ TurnFrame

\* speakResponse: the TTS fetch returns a readable stream
TtsFetchOk(t) ==
    /\ pc[t] = "ttsFetch"
    /\ pc' = [pc EXCEPT ![t] = "read"]
    /\ NoTransition
    /\ UNCHANGED <<nChunks, conversationId, obs>>
    /\ AudioFrame
    /\ TurnFrame

\* mutant: a malformed data line is treated like a failure of the stream
ReadDataAborts(t, wellFormed) ==
    /\ pc[t] = "read"
    /\ nChunks' = [nChunks EXCEPT ![t] = @ + 1]
    /\ IF wellFormed
       THEN /\ pc' = [pc EXCEPT ![t] = IF audioContext # "null" THEN "decode" ELSE "read"]
            /\ UNCHANGED obs
            /\ NoTransition
       ELSE /\ pc' = [pc EXCEPT ![t] = "caught"]
            /\ obs' = [obs EXCEPT ![t].dropped = @ + 1, ![t].onError = @ + 1]
            /\ transition("LISTENING", "undefined")
    /\ UNCHANGED conversationId
    /\ AudioFrame
    /\ TurnFrame

\* read loop: a data line with audio; wellFormed = JSON.parse and atob succeed.
\* playAudioChunk returns at once without an audio context, else awaits the decode
ReadData(t, wellFormed) ==
    /\ pc[t] = "read"
    /\ nChunks' = [nChunks EXCEPT ![t] = @ + 1]
    /\ pc' = [pc EXCEPT ![t] = IF wellFormed /\ audioContext # "null" THEN "decode" ELSE "read"]
    /\ obs' = [obs EXCEPT ![t].dropped = IF wellFormed THEN @ ELSE @ + 1]
    /\ NoTransition
    /\ UNCHANGED conversationId
    /\ AudioFrame
    /\ TurnFrame

\* mutant: a decoded buffer is put at the front of the queue
DecodeDoneUnshift(t, decoded) ==
    /\ pc[t] = "decode"
    /\ pc' = [pc EXCEPT ![t] = "read"]
    /\ IF decoded
       THEN LET b == Buffer(t, nChunks[t])
                pushed == [Playback EXCEPT !.q = <<b>> \o audioQueue]
            IN  /\ SetPlayback(IF ~isPlaying
                               THEN playNextInQueue(pushed, audioContext)
                               ELSE pushed)
                /\ obs' = [obs EXCEPT ![t].pushed = @ + 1]
       ELSE /\ AudioFrame
            /\ obs' = [obs EXCEPT ![t].dropped = @ + 1]
    /\ NoTransition
    /\ UNCHANGED <<nChunks, conversationId>>
    /\ TurnFrame

\* playAudioChunk after the await: decodeAudioData resolved (push, play if idle)
\* or rejected (logged, chunk dropped)
DecodeDone(t, decoded) ==
    /\ pc[t] = "decode"
    /\ pc' = [pc EXCEPT ![t] = "read"]
    /\ IF decoded
       THEN LET b == Buffer(t, nChunks[t])
                pushed == [Playback EXCEPT !.q = Append(audioQueue, b)]
            IN  /\ SetPlayback(IF ~isPlaying
                               THEN playNextInQueue(pushed, audioContext)
                               ELSE pushed)
                /\ obs' = [obs EXCEPT ![t].pushed = @ + 1]
       ELSE /\ AudioFrame
            /\ obs' = [obs EXCEPT ![t].dropped = @ + 1]
    /\ NoTransition
    /\ UNCHANGED <<nChunks, conversationId>>
    /\ TurnFrame

\* read loop: the line "data: [DONE]": onAudioComplete, transition('LISTENING')
ReadEndMarker(t) ==
    /\ pc[t] = "read"
    /\ obs' = [obs EXCEPT ![t].onAudioComplete = @ + 1]
    /\ transition("LISTENING", "undefined")
    /\ pc' = [pc EXCEPT ![t] = "done"]
    /\ UNCHANGED <<nChunks, conversationId>>
    /\ AudioFrame
    /\ TurnFrame

\* read loop: reader.read() resolves with done = true: break, and return
ReadStreamEnd(t) ==
    /\ pc[t] = "read"
    /\ pc' = [pc EXCEPT ![t] = "ended"]
    /\ NoTransition
    /\ UNCHANGED <<nChunks, conversationId, obs>>
    /\ AudioFrame
    /\ TurnFrame

\* mutant: the catch block also discards what the stream had enqueued
ReadErrorRetracts(t) ==
    /\ pc[t] = "read"
    /\ obs' = [obs EXCEPT ![t].onError = @ + 1]
    /\ transition("LISTENING", "undefined")
    /\ pc' = [pc EXCEPT ![t] = "caught"]
    /\ UNCHANGED <<nChunks, conversationId>>
    /\ SetPlayback([Playback EXCEPT !.q = <<>>])
    /\ TurnFrame

\* read loop: reader.read() rejects; the catch block calls onError and
\* transition('LISTENING')
ReadError(t) ==
    /\ pc[t] = "read"
    /\ obs' = [obs EXCEPT ![t].onError = @ + 1]
    /\ transition("LISTENING", "undefined")
    /\ pc' = [pc EXCEPT ![t] = "caught"]
    /\ UNCHANGED <<nChunks, conversationId>>
    /\ AudioFrame
    /\ TurnFrame

\* the playing node reaches the end of its buffer: its ended event runs onended
NodeEnded(n) ==
    /\ n \in sounding
    /\ SetPlayback(onended([Playback EXCEPT !.snd = sounding \ {n}], audioContext))
    /\ NoTransition
    /\ UNCHANGED <<callbacks, lastBargeIn, partialTranscript, onBargeIn, energyHistory,
                   delivered, detCall, heard, stt,
                   audioContext, configAudioContext, standaloneVars, pc, nChunks, now, timers, lifecycle,
                   conversationId, obs, startResult, cancelled, stale, firedIn>>

\* the ended event of a node that stop() halted is dispatched
StoppedNodeEnded(n) ==
    /\ n \in endedPending
    /\ SetPlayback(onended([Playback EXCEPT !.pend = endedPending \ {n}], audioContext))
    /\ NoTransition
    /\ UNCHANGED <<callbacks, lastBargeIn, partialTranscript, onBargeIn, energyHistory,
                   delivered, detCall, heard, stt,
                   audioContext, configAudioContext, standaloneVars, pc, nChunks, now, timers, lifecycle,
                   conversationId, obs, startResult, cancelled, stale, firedIn>>

\* mutant: the callback does not re-check the state
GraceTimerFiresUnguarded(d) ==
    /\ d \in timers
    /\ now >= d
    /\ timers' = timers \ {d}
    /\ firedIn' = firedIn \cup {state}
    /\ transition("LISTENING", "undefined")
    /\ UNCHANGED <<callbacks, lastBargeIn, partialTranscript, onBargeIn, energyHistory,
                   delivered, detCall, heard, stt,
                   audioContext, configAudioContext, standaloneVars, pc, nChunks, now, lifecycle,
                   conversationId, obs, startResult, cancelled, stale>>
    /\ AudioFrame

\* the callback handleBargeIn scheduled runs
GraceTimerFires(d) ==
    /\ d \in timers
    /\ now >= d
    /\ timers' = timers \ {d}
    /\ firedIn' = firedIn \cup {state}
    /\ IF state = "BARGE_IN"
       THEN transition("LISTENING", "undefined")
       ELSE NoTransition
    /\ UNCHANGED <<callbacks, lastBargeIn, partialTranscript, onBargeIn, energyHistory,
                   delivered, detCall, heard, stt,
                   audioContext, configAudioContext, standaloneVars, pc, nChunks, now, lifecycle,
                   conversationId, obs, startResult, cancelled, stale>>
    /\ AudioFrame

\* what the calls made by start() do
StartOutcomes == {"ok", "noContext", "unsupported"}

\* start(), offered by the host only while no session is active.
\*   "ok":          the context is there and recognition starts
\*   "noContext":   new AudioContext() throws: onError, and the error is re-thrown
\*   "unsupported": the browser has no SpeechRecognition: BrowserSTT.start()
\*                  reports through onError twice (init, then the caught
\*                  TypeError of recognition.start()) and returns normally
Start(outcome) ==
    /\ stt = "null"
    /\ outcome = "noContext" => ~configAudioContext
    /\ lifecycle' = lifecycle + 1
    /\ IF outcome = "noContext"
       THEN /\ startResult' = [call |-> lifecycle + 1, acquired |-> FALSE,
                               outcome |-> "rejected", onError |-> 1]
            /\ NoTransition
            /\ UNCHANGED <<audioContext, stt>>
       ELSE /\ audioContext' = "open"
            /\ stt' = IF outcome = "ok" THEN "active" ELSE "inert"
            /\ startResult' = [call |-> lifecycle + 1, acquired |-> outcome = "ok",
                               outcome |-> "resolved",
                               onError |-> IF outcome = "ok" THEN 0 ELSE 2]
            /\ transition("LISTENING", "undefined")
    /\ UNCHANGED <<callbacks, lastBargeIn, partialTranscript, onBargeIn, energyHistory,
                   delivered, detCall, heard,
                   configAudioContext, standaloneVars, pc, nChunks, now, timers, conversationId, obs,
                   cancelled, stale, firedIn>>
    /\ AudioFrame

\* stop()
Stop ==
    /\ lifecycle' = lifecycle + 1
    /\ stt' = "null"
    /\ SetPlayback(stopAudioPlayback(Playback))
    /\ cancelled' = TRUE
    /\ stale' = stale \cup SpeakingTurns
    /\ audioContext' = IF audioContext # "null" /\ ~configAudioContext
                       THEN "null" ELSE audioContext
    /\ transition("IDLE", "undefined")
    /\ UNCHANGED <<callbacks, lastBargeIn, partialTranscript, onBargeIn, energyHistory,
                   delivered, detCall, heard,
                   configAudioContext, standaloneVars, pc, nChunks, now, timers, conversationId, obs,
                   startResult, firedIn>>

\* the wall clock advances
Tick ==
    /\ now < StartTime + MaxTicks * TickMs
    /\ now' = now + TickMs
    /\ UNCHANGED <<state, history, callbacks, lastCall, lastBargeIn, partialTranscript,
                   onBargeIn, energyHistory, delivered, detCall, heard, stt, audioContext,
                   configAudioContext, standaloneVars, audioQueue,
                   isPlaying, currentSourceNode, sounding, endedPending, pc, nChunks,
                   timers, lifecycle, conversationId, obs, startResult, cancelled,
                   stale, firedIn>>

(***************************************************************************)
(* The stand-alone state machine, driven by a client                       *)
(***************************************************************************)
SMFrame ==
    UNCHANGED <<callbacks, lastBargeIn, partialTranscript, onBargeIn, energyHistory,
                delivered, detCall, heard, stt, audioContext,
                configAudioContext, standaloneVars, audioQueue, isPlaying, currentSourceNode, sounding,
                endedPending, pc, nChunks, now, timers, lifecycle, conversationId, obs,
                startResult, cancelled, stale, firedIn>>

\* machine.transition(to, reason)
Request(to, reason) ==
    /\ Len(history) < MaxRequests
    /\ transition(to, reason)
    /\ SMFrame

\* mutant: reset() assigns IDLE without asking the table
ResetForced ==
    /\ Len(history) < MaxRequests
    /\ history' = PushHistory(history, [from |-> state, to |-> "IDLE", reason |-> "Reset"])
    /\ state' = "IDLE"
    /\ lastCall' = [from |-> state, to |-> "IDLE", result |-> TRUE,
                    notified |-> Notifications("IDLE", callbacks, Len(history'))]
    /\ SMFrame

\* machine.reset()
Reset ==
    /\ Len(history) < MaxRequests
    /\ transition("IDLE", "Reset")
    /\ SMFrame

\* a client that keeps the machine going round a circuit of allowed transitions
Circuit ==
    [s \in States |->
        CASE s = "IDLE"      -> "LISTENING"
          [] s = "LISTENING" -> "THINKING"
          [] s = "THINKING"  -> "SPEAKING"
          [] s = "SPEAKING"  -> "BARGE_IN"
          [] s = "BARGE_IN"  -> "IDLE"]

\* machine.transition(to): the next state of the circuit, or a request the
\* machine refuses
Drive(to) ==
    /\ to = Circuit[state] \/ ~isValidTransition(state, to)
    /\ transition(to, "undefined")
    /\ SMFrame

(***************************************************************************)
(* The stand-alone detector, driven by a client                            *)
(***************************************************************************)
FineTickMs == 100     \* granularity of the detector's clock
MaxFineTicks == 3     \* how far that clock runs

\* RMS energies of the chunks, in thousandths: at the threshold, above it, and
\* at three times the threshold
Energies == {20, 30, 60}

DetectorFrame ==
    UNCHANGED <<heard, state, history, callbacks, lastCall, stt, audioContext,
                configAudioContext, standaloneVars, audioQueue, isPlaying, currentSourceNode, sounding,
                endedPending, pc, nChunks, timers, lifecycle, conversationId, obs,
                startResult, cancelled, stale, firedIn>>

\* new BargeInDetector(): default config, no callback
InitDetector == InitSM

\* this.onBargeIn?.(event) with the client's callback
Deliver(honoured, event) ==
    delivered' = IF honoured /\ onBargeIn = "observer"
                 THEN Append(delivered, event)
                 ELSE delivered

\* detector.setBargeInCallback(callback)
SetBargeInCallback ==
    /\ onBargeIn = "null"
    /\ onBargeIn' = "observer"
    /\ UNCHANGED <<lastBargeIn, partialTranscript, energyHistory, delivered, detCall, now>>
    /\ DetectorFrame

\* detector.processAudioChunk(audioData)
DetectorAudioChunk(energy) ==
    /\ LET r == processAudioChunk(energy, energyHistory, lastBargeIn, now)
       IN  /\ energyHistory' = r.hist
           /\ lastBargeIn' = r.last
           /\ Deliver(r.honoured, r.event)
    /\ detCall' = [NoCall EXCEPT !.method = "processAudioChunk", !.at = now,
                                 !.energy = energy]
    /\ UNCHANGED <<partialTranscript, onBargeIn, now>>
    /\ DetectorFrame

\* detector.processTranscript(text, isFinal)
DetectorTranscript(text, isFinal) ==
    /\ LET r == processTranscript(text, isFinal, partialTranscript, lastBargeIn, now)
       IN  /\ partialTranscript' = r.partial
           /\ lastBargeIn' = r.last
           /\ Deliver(r.honoured, [timestamp |-> now, reason |-> "transcript",
                                    confidence |-> 80])
    /\ detCall' = [NoCall EXCEPT !.method = "processTranscript", !.at = now,
                                 !.text = text, !.isFinal = isFinal]
    /\ UNCHANGED <<energyHistory, onBargeIn, now>>
    /\ DetectorFrame

\* detector.processCombined(audioData, text, isFinal)
DetectorCombined(energy, text, isFinal) ==
    /\ LET r == processCombined(energy, text, isFinal, lastBargeIn, now)
       IN  /\ lastBargeIn' = r.last
           /\ Deliver(r.honoured, r.event)
    /\ detCall' = [method |-> "processCombined", at |-> now, energy |-> energy,
                   text |-> text, isFinal |-> isFinal]
    /\ UNCHANGED <<partialTranscript, energyHistory, onBargeIn, now>>
    /\ DetectorFrame

\* mutant: reset() also forgets the last trigger
DetectorResetClearsDebounce ==
    /\ energyHistory' = <<>>
    /\ partialTranscript' = <<>>
    /\ lastBargeIn' = 0
    /\ detCall' = [NoCall EXCEPT !.method = "reset", !.at = now]
    /\ UNCHANGED <<onBargeIn, delivered, now>>
    /\ DetectorFrame

\* detector.reset()
DetectorReset ==
    /\ energyHistory' = <<>>
    /\ partialTranscript' = <<>>
    /\ detCall' = [NoCall EXCEPT !.method = "reset", !.at = now]
    /\ UNCHANGED <<lastBargeIn, onBargeIn, delivered, now>>
    /\ DetectorFrame

\* the wall clock advances by a tenth of a second
DetectorTick ==
    /\ now < StartTime + MaxFineTicks * FineTickMs
    /\ now' = now + FineTickMs
    /\ UNCHANGED <<lastBargeIn, partialTranscript, energyHistory, delivered, detCall,
                   onBargeIn>>
    /\ DetectorFrame

(***************************************************************************)
(* BrowserSTT alone, driven by a client and by the browser's recogniser    *)
(***************************************************************************)
MaxSttCalls == 4      \* start()/stop() calls of the client

STTFrame == UNCHANGED <<coordinatorVars, continuous, sttSupported, retryVars, speechVars, lipVars>>

\* new BrowserSTT(config, callbacks)
InitSTT ==
    /\ InitCore
    /\ callbacks = {"onStateChange"}
    /\ onBargeIn = "null"
    /\ configAudioContext = FALSE
    /\ STTAtRest
    /\ RetryAtRest
    /\ SpeechAtRest
    /\ LipAtRest
    /\ continuous \in BOOLEAN
    /\ sttSupported \in BOOLEAN

\* init(): creates the recognition object if the browser has one, else reports
init(rec) ==
    IF ~sttSupported
    THEN [rec |-> rec, errors |-> 1]
    ELSE [rec |-> "idle", errors |-> 0]

\* start(): init() if needed; nothing if already listening; recognition.start()
\* throws without a recognition object or when the session was already started
SttStart ==
    /\ sttCalls < MaxSttCalls
    /\ sttCalls' = sttCalls + 1
    /\ LET i == IF recognition = "null" THEN init(recognition)
                ELSE [rec |-> recognition, errors |-> 0]
       IN  IF isListening
           THEN /\ recognition' = i.rec
                /\ sttOnError' = sttOnError + i.errors
                /\ UNCHANGED endedAlone
           ELSE IF i.rec = "idle"
                THEN /\ recognition' = "starting"
                     /\ sttOnError' = sttOnError + i.errors
                     /\ endedAlone' = FALSE
                ELSE /\ recognition' = i.rec
                     /\ sttOnError' = sttOnError + i.errors + 1
                     /\ UNCHANGED endedAlone
    /\ UNCHANGED <<isListening, restartTimers>>
    /\ STTFrame

\* stop(): nothing unless listening; recognition.stop()
SttStop ==
    /\ sttCalls < MaxSttCalls
    /\ sttCalls' = sttCalls + 1
    /\ recognition' = IF isListening /\ recognition = "running"
                      THEN "stopping" ELSE recognition
    /\ UNCHANGED <<isListening, restartTimers, endedAlone, sttOnError>>
    /\ STTFrame

\* recognition.onstart
OnStart ==
    /\ recognition = "starting"
    /\ recognition' = "running"
    /\ isListening' = TRUE
    /\ UNCHANGED <<restartTimers, endedAlone, sttCalls, sttOnError>>
    /\ STTFrame

\* recognition.onend: isListening is cleared, then read by the restart test
onend ==
    LET listening == FALSE
    IN  [isListening |-> listening,
         timers |-> IF continuous /\ listening THEN restartTimers + 1 ELSE restartTimers]

\* the recogniser ends the session by itself (silence, network, time limit)
SessionEnds ==
    /\ recognition = "running"
    /\ recognition' = "idle"
    /\ isListening' = onend.isListening
    /\ restartTimers' = onend.timers
    /\ endedAlone' = TRUE
    /\ UNCHANGED <<sttCalls, sttOnError>>
    /\ STTFrame

\* the session that stop() asked to end has ended
OnEndAfterStop ==
    /\ recognition = "stopping"
    /\ recognition' = "idle"
    /\ isListening' = onend.isListening
    /\ restartTimers' = onend.timers
    /\ endedAlone' = FALSE
    /\ UNCHANGED <<sttCalls, sttOnError>>
    /\ STTFrame

\* the restart callback, 100 ms after onend: start() if still listening. The
\* onend handler never schedules it, so no specification has a step for it.
RestartTimerFires ==
    /\ restartTimers > 0
    /\ restartTimers' = restartTimers - 1
    /\ recognition' = IF isListening /\ recognition = "idle" THEN "starting" ELSE recognition
    /\ UNCHANGED <<isListening, endedAlone, sttCalls, sttOnError>>
    /\ STTFrame

(***************************************************************************)
(* OpenAIService.retryWithBackoff, called once with the default maxRetries *)
(***************************************************************************)
\* what an invocation of fn rejects with: error.status, or error.code
ErrorKinds == {"400", "401", "429", "500", "ECONNREFUSED", "other"}

\* the retry-after header of a 429 error, in seconds (0: no header)
RetryAfters == {0, 2}

RECURSIVE Pow2(_)
Pow2(n) == IF n = 0 THEN 1 ELSE 2 * Pow2(n - 1)

Min(a, b) == IF a < b THEN a ELSE b

\* Math.min(1000 * Math.pow(2, attempt), 10000)
backoff(n) == Min(1000 * Pow2(n), 10000)

RetryFrame == UNCHANGED <<coordinatorVars, sttVars, speechVars, lipVars>>

InitRetry ==
    /\ InitCore
    /\ callbacks = {"onStateChange"}
    /\ onBargeIn = "null"
    /\ configAudioContext = FALSE
    /\ AtRest

\* retryWithBackoff(fn): the loop is entered and fn is invoked
RetryBegin ==
    /\ retryPc = "idle"
    /\ retryPc' = IF 0 < maxRetries THEN "calling" ELSE "thrown"
    /\ retryOutcome' = IF 0 < maxRetries THEN retryOutcome
                       ELSE [kind |-> "thrown", value |-> [kind |-> "Max retries exceeded", call |-> 0]]
    /\ UNCHANGED <<attempt, lastError, retryCalls, retryDelays>>
    /\ RetryFrame

\* fn() resolves: return await fn()
FnResolves ==
    /\ retryPc = "calling"
    /\ retryCalls' = Append(retryCalls, "ok")
    /\ retryPc' = "returned"
    /\ retryOutcome' = [kind |-> "returned", value |-> [kind |-> "ok", call |-> Len(retryCalls')]]
    /\ UNCHANGED <<attempt, lastError, retryDelays>>
    /\ RetryFrame

\* fn() rejects with an error of the given kind: the catch block, up to the
\* throw or the await of sleep(delay)
FnRejects(kind, retryAfter) ==
    /\ retryPc = "calling"
    /\ retryAfter # 0 => kind = "429"
    /\ retryCalls' = Append(retryCalls, kind)
    /\ LET error == [kind |-> kind, call |-> Len(retryCalls')]
       IN  /\ lastError' = error
           /\ IF kind \in {"401", "400"}
              THEN /\ retryPc' = "thrown"
                   /\ retryOutcome' = [kind |-> "thrown", value |-> error]
                   /\ UNCHANGED retryDelays
              ELSE IF kind = "429"
              THEN /\ retryPc' = "sleeping"
                   /\ retryDelays' = Append(retryDelays,
                                            IF retryAfter # 0 THEN retryAfter * 1000
                                            ELSE backoff(attempt))
                   /\ UNCHANGED retryOutcome
              ELSE IF kind \in {"500", "ECONNREFUSED"}
              THEN /\ retryPc' = "sleeping"
                   /\ retryDelays' = Append(retryDelays, backoff(attempt))
                   /\ UNCHANGED retryOutcome
              ELSE /\ retryPc' = "thrown"
                   /\ retryOutcome' = [kind |-> "thrown", value |-> error]
                   /\ UNCHANGED retryDelays
    /\ UNCHANGED attempt
    /\ RetryFrame

\* mutant: the loop runs while attempt <= maxRetries
SleepDoneOneMore ==
    /\ retryPc = "sleeping"
    /\ attempt' = attempt + 1
    /\ IF attempt' <= maxRetries
       THEN /\ retryPc' = "calling"
            /\ UNCHANGED retryOutcome
       ELSE /\ retryPc' = "thrown"
            /\ retryOutcome' = [kind |-> "thrown", value |-> lastError]
    /\ UNCHANGED <<lastError, retryCalls, retryDelays>>
    /\ RetryFrame

\* sleep(delay) resolves: continue, attempt++, and the loop test; after the
\* loop, throw lastError
SleepDone ==
    /\ retryPc = "sleeping"
    /\ attempt' = attempt + 1
    /\ IF attempt' < maxRetries
       THEN /\ retryPc' = "calling"
            /\ UNCHANGED retryOutcome
       ELSE /\ retryPc' = "thrown"
            /\ retryOutcome' = [kind |-> "thrown", value |-> lastError]
    /\ UNCHANGED <<lastError, retryCalls, retryDelays>>
    /\ RetryFrame

(***************************************************************************)
(* Specifications                                                          *)
(***************************************************************************)
NextRetry ==
    \/ RetryBegin
    \/ FnResolves
    \/ \E kind \in ErrorKinds, retryAfter \in RetryAfters : FnRejects(kind, retryAfter)
    \/ SleepDone

NextSTT ==
    \/ SttStart
    \/ SttStop
    \/ OnStart
    \/ SessionEnds
    \/ OnEndAfterStop

NextDetector ==
    \/ SetBargeInCallback
    \/ \E energy \in Energies : DetectorAudioChunk(energy)
    \/ \E text \in Texts, isFinal \in BOOLEAN : DetectorTranscript(text, isFinal)
    \/ \E energy \in Energies, text \in Texts, isFinal \in BOOLEAN :
          DetectorCombined(energy, text, isFinal)
    \/ DetectorReset
    \/ DetectorTick

NextHistory == \E to \in States : Drive(to)

NextSM ==
    \/ \E to \in States, reason \in Reasons : Request(to, reason)
    \/ Reset

\* the coordinator's steps with the turns T, at most maxChunks data lines per
\* stream and at most maxLifecycle start()/stop() calls
Step(T, maxChunks, maxLifecycle) ==
    \/ \E outcome \in StartOutcomes : lifecycle < maxLifecycle /\ Start(outcome)
    \/ lifecycle < maxLifecycle /\ Stop
    \/ Tick
    \/ \E text \in Texts : PartialTranscript(text)
    \/ \E text \in Texts :
          /\ trim(text) # <<>> => \E t \in T : pc[t] = "idle"
          /\ FinalTranscript(text)
    \/ \E t \in T : ChatFails(t)
    \/ \E t \in T, text \in Texts : ChatReturns(t, text, ResponseId(t))
    \/ \E t \in T : TtsFetchFails(t)
    \/ \E t \in T : TtsFetchOk(t)
    \/ \E t \in T, wellFormed \in BOOLEAN :
          nChunks[t] < maxChunks /\ ReadData(t, wellFormed)
    \/ \E t \in T, decoded \in BOOLEAN : DecodeDone(t, decoded)
    \/ \E t \in T : ReadEndMarker(t)
    \/ \E t \in T : ReadStreamEnd(t)
    \/ \E t \in T : ReadError(t)
    \/ \E n \in sounding : NodeEnded(n)
    \/ \E n \in endedPending : StoppedNodeEnded(n)

Next == Step(Turns, MaxChunks, MaxLifecycle)

\* one turn followed further: a longer stream and more start()/stop() calls
NextTurn == Step({1}, DeepChunks, DeepLifecycle)

NextWired ==
    \/ NextTurn
    \/ \E d \in timers : GraceTimerFires(d)

(***************************************************************************)
(* simulateSpeech alone: the jaw animation of the talking head, driven by  *)
(* a caller, the browser's animation frames and its timers                 *)
(***************************************************************************)
MaxSims == 3            \* simulateSpeech calls
MaxSpeechTicks == 5     \* clock advances
SpeechTickMs == 1000    \* one clock advance, in ms
TextLengths == {5, 20}  \* text.length of the texts spoken

SpeechFrame == UNCHANGED <<coordinatorVars, sttVars, retryVars, lipVars>>

InitSpeech ==
    /\ InitCore
    /\ callbacks = {"onStateChange"}
    /\ onBargeIn = "null"
    /\ configAudioContext = FALSE
    /\ AtRest

Max(a, b) == IF a > b THEN a ELSE b

\* Math.max(2000, text.length * 150)
estimatedDuration(len) == Max(2000, len * 150)

\* cancelOngoingSpeech(state): clearTimeout on every id held, then the list is emptied
cancelOngoingSpeech == speechTimers \ {speechTimeouts[i] : i \in 1..Len(speechTimeouts)}

\* simulateSpeech(state, text) with a jaw bone found: the running simulation is
\* cancelled, isSpeaking is set, animateSpeech runs once (elapsed is 0, so it poses
\* the jaw and requests a frame), and the end-of-speech timeout is set and stored
SimulateSpeech(len) ==
    /\ Len(sims) < MaxSims
    /\ LET id == Len(sims) + 1 IN
        /\ isSpeaking' = TRUE
        /\ jawWriter' = id
        /\ frames' = frames \cup {id}
        /\ speechTimers' = cancelOngoingSpeech \cup {id}
        /\ speechTimeouts' = <<id>>
        /\ sims' = Append(sims, [startTime |-> speechNow,
                                 estimatedDuration |-> estimatedDuration(len),
                                 overlapped |-> isSpeaking])
    /\ UNCHANGED speechNow
    /\ SpeechFrame

\* the browser runs the animation frame requested by animateSpeech of simulation id
AnimationFrame(id) ==
    /\ id \in frames
    /\ jawWriter' = id
    /\ IF ~isSpeaking
       THEN \* the jaw is put back and the loop ends
            /\ frames' = frames \ {id}
            /\ UNCHANGED <<isSpeaking, speechTimeouts>>
       ELSE IF speechNow - sims[id].startTime < sims[id].estimatedDuration
       THEN \* the jaw is posed and the next frame requested
            UNCHANGED <<frames, isSpeaking, speechTimeouts>>
       ELSE \* the jaw is posed, then put back; the animation is complete
            /\ frames' = frames \ {id}
            /\ isSpeaking' = FALSE
            /\ speechTimeouts' = <<>>
    /\ UNCHANGED <<speechTimers, sims, speechNow>>
    /\ SpeechFrame

\* the end-of-speech timeout of simulation id runs
SpeechTimerFires(id) ==
    /\ id \in speechTimers
    /\ speechNow >= sims[id].startTime + sims[id].estimatedDuration
    /\ isSpeaking' = FALSE
    /\ speechTimers' = speechTimers \ {id}
    /\ UNCHANGED <<speechTimeouts, frames, sims, speechNow, jawWriter>>
    /\ SpeechFrame

SpeechTick ==
    /\ speechNow < MaxSpeechTicks * SpeechTickMs
    /\ speechNow' = speechNow + SpeechTickMs
    /\ UNCHANGED <<isSpeaking, speechTimeouts, speechTimers, frames, sims, jawWriter>>
    /\ SpeechFrame

NextSpeech ==
    \/ \E len \in TextLengths : SimulateSpeech(len)
    \/ \E id \in 1..MaxSims : AnimationFrame(id)
    \/ \E id \in 1..MaxSims : SpeechTimerFires(id)
    \/ SpeechTick

(***************************************************************************)
(* LipSyncEngine alone: polled by the renderer, one reading of the         *)
(* analyser per poll                                                       *)
(***************************************************************************)
MaxLipPolls == 3        \* getCurrentViseme() calls

\* the levels getFrequencyBand and getOverallVolume report, in tenths: the values
\* on either side of every threshold of mapToVisemes, and the thresholds themselves
Lows == {4, 7, 8}
Mids == {3, 4, 5, 6}
Highs == {3, 6, 7}
Volumes == {0, 1, 3, 4}
Factors == {15}         \* arguments of setSmoothingFactor, in tenths

RECURSIVE Pow10(_)
Pow10(n) == IF n = 0 THEN 1 ELSE 10 * Pow10(n - 1)

\* the weight 1.0: a weight set by mapToVisemes has two decimals and every poll
\* adds one, so the arithmetic is exact
One == 100 * Pow10(MaxLipPolls)
Tenth == One \div 10
Hundredth == One \div 100

LipFrame == UNCHANGED <<coordinatorVars, sttVars, retryVars, speechVars>>

InitLip ==
    /\ InitCore
    /\ callbacks = {"onStateChange"}
    /\ onBargeIn = "null"
    /\ configAudioContext = FALSE
    /\ AtRest

\* the weight sets mapToVisemes returns
Pose(name, volume) ==
    CASE name = "silence" ->
            ("jawOpen" :> 0) @@ ("mouthClose" :> 10 * Tenth)
      [] name = "sibilant" ->
            ("jawOpen" :> 2 * Tenth) @@ ("mouthStretchLeft" :> 4 * Tenth)
            @@ ("mouthStretchRight" :> 4 * Tenth) @@ ("mouthFunnel" :> 2 * Tenth)
      [] name = "openVowel" ->
            ("jawOpen" :> 8 * Tenth) @@ ("mouthOpen" :> 6 * Tenth)
            @@ ("mouthSmileLeft" :> 1 * Tenth) @@ ("mouthSmileRight" :> 1 * Tenth)
      [] name = "closedConsonant" ->
            ("mouthClose" :> 9 * Tenth) @@ ("mouthPressLeft" :> 5 * Tenth)
            @@ ("mouthPressRight" :> 5 * Tenth) @@ ("jawOpen" :> 1 * Tenth)
      [] name = "midVowel" ->
            ("jawOpen" :> 3 * Tenth) @@ ("mouthSmileLeft" :> 6 * Tenth)
            @@ ("mouthSmileRight" :> 6 * Tenth) @@ ("mouthStretchLeft" :> 3 * Tenth)
            @@ ("mouthStretchRight" :> 3 * Tenth)
      [] name = "roundedVowel" ->
            ("jawOpen" :> 5 * Tenth) @@ ("mouthFunnel" :> 7 * Tenth)
            @@ ("mouthPucker" :> 6 * Tenth)
      [] name = "neutral" ->
            ("jawOpen" :> 3 * volume * Hundredth) @@ ("mouthOpen" :> 2 * volume * Hundredth)

\* mutant: the open vowel is tested before the sibilant
mapToVisemesLowFirst(lowFreq, midFreq, highFreq, volume) ==
    IF volume < 1 THEN Pose("silence", volume)
    ELSE IF lowFreq > 7 THEN Pose("openVowel", volume)
    ELSE IF highFreq > 6 THEN Pose("sibilant", volume)
    ELSE IF midFreq > 5 /\ volume > 3 THEN Pose("closedConsonant", volume)
    ELSE IF midFreq > 4 /\ highFreq > 3 THEN Pose("midVowel", volume)
    ELSE IF lowFreq > 4 /\ midFreq > 3 THEN Pose("roundedVowel", volume)
    ELSE Pose("neutral", volume)

\* mapToVisemes(lowFreq, midFreq, highFreq, volume), the levels in tenths
mapToVisemes(lowFreq, midFreq, highFreq, volume) ==
    IF volume < 1 THEN Pose("silence", volume)
    ELSE IF highFreq > 6 THEN Pose("sibilant", volume)
    ELSE IF lowFreq > 7 THEN Pose("openVowel", volume)
    ELSE IF midFreq > 5 /\ volume > 3 THEN Pose("closedConsonant", volume)
    ELSE IF midFreq > 4 /\ highFreq > 3 THEN Pose("midVowel", volume)
    ELSE IF lowFreq > 4 /\ midFreq > 3 THEN Pose("roundedVowel", volume)
    ELSE Pose("neutral", volume)

\* weights[key] || 0
WeightOr0(weights, key) == IF key \in DOMAIN weights THEN weights[key] ELSE 0

\* Math.max(0, Math.min(1, x))
Clamp01(x) == Max(0, Min(One, x))

\* mutant: only the targets of the new weights are kept
smoothWeightsNewKeysOnly(previous, newWeights, factor) ==
    [key \in DOMAIN newWeights |->
        LET oldValue == WeightOr0(previous, key)
            newValue == WeightOr0(newWeights, key)
        IN Clamp01(oldValue + ((newValue - oldValue) * factor) \div 10)]

\* smoothWeights(newWeights), with this.previousWeights and this.smoothingFactor
smoothWeights(previous, newWeights, factor) ==
    [key \in DOMAIN previous \cup DOMAIN newWeights |->
        LET oldValue == WeightOr0(previous, key)
            newValue == WeightOr0(newWeights, key)
        IN Clamp01(oldValue + ((newValue - oldValue) * factor) \div 10)]

\* getCurrentViseme(), the analyser reporting the given levels
GetCurrentViseme(lowFreq, midFreq, highFreq, volume) ==
    /\ lipPolls < MaxLipPolls
    /\ LET weights == mapToVisemes(lowFreq, midFreq, highFreq, volume) IN
        /\ previousWeights' = smoothWeights(previousWeights, weights, smoothingFactor)
        /\ lipLast' = [low |-> lowFreq, mid |-> midFreq, high |-> highFreq,
                       volume |-> volume, weights |-> weights,
                       before |-> previousWeights,
                       same |-> lipPolls > 0 /\ weights = lipLast.weights]
    /\ lipPolls' = lipPolls + 1
    /\ UNCHANGED smoothingFactor
    /\ LipFrame

\* setSmoothingFactor(factor)
SetSmoothingFactor(factor) ==
    /\ smoothingFactor' = Max(0, Min(10, factor))
    /\ UNCHANGED <<previousWeights, lipPolls, lipLast>>
    /\ LipFrame

NextLip ==
    \/ \E l \in Lows, m \in Mids, h \in Highs, v \in Volumes : GetCurrentViseme(l, m, h, v)
    \/ \E f \in Factors : SetSmoothingFactor(f)

\* the state machine alone
SpecSM == InitSM /\ [][NextSM]_vars

\* retryWithBackoff alone
SpecRetry == InitRetry /\ [][NextRetry]_vars

\* simulateSpeech alone
SpecSpeech == InitSpeech /\ [][NextSpeech]_vars

\* the lip-sync engine alone
SpecLip == InitLip /\ [][NextLip]_vars

SpecSTT == InitSTT /\ [][NextSTT]_vars

\* the browser dispatches the events it owes
SpecSTTFair ==
    /\ SpecSTT
    /\ WF_vars(OnStart)
    /\ WF_vars(OnEndAfterStop)

SpecDetector == InitDetector /\ [][NextDetector]_vars

\* the state machine alone, driven past the capacity of its history
SpecHistory == InitSM /\ [][NextHistory]_vars

\* the coordinator as constructed
Spec == Init /\ [][Next]_vars

\* the coordinator as constructed, one turn followed further
SpecTurn == Init /\ [][NextTurn]_vars

\* the coordinator with the barge-in callback registered
SpecWired == InitWired /\ [][NextWired]_vars

\* the same, with the clock advancing and the event loop running due callbacks
SpecWiredFair ==
    /\ SpecWired
    /\ WF_vars(Tick)
    /\ WF_vars(\E d \in timers : GraceTimerFires(d))

(***************************************************************************)
(* Properties                                                              *)
(***************************************************************************)
Range(q) == {q[i] : i \in 1..Len(q)}
Buffers == Turns \X (1..DeepChunks)

\* the ways a processUserInput call has returned
Returned == {"done", "ended", "caught"}

\* a step that schedules a grace callback: handleBargeIn ran
BargeInStep == timers' # timers /\ timers \subseteq timers'
\* a step that consumes a grace callback: the callback ran
GraceStep == timers' # timers /\ timers' \subseteq timers

\* the allowed-transition table as the specification gives it
AllowedPairs ==
    { <<"IDLE", "LISTENING">>, <<"IDLE", "THINKING">>,
      <<"LISTENING", "THINKING">>, <<"LISTENING", "IDLE">>, <<"LISTENING", "SPEAKING">>,
      <<"THINKING", "SPEAKING">>, <<"THINKING", "LISTENING">>, <<"THINKING", "IDLE">>,
      <<"SPEAKING", "LISTENING">>, <<"SPEAKING", "BARGE_IN">>, <<"SPEAKING", "IDLE">>,
      <<"BARGE_IN", "LISTENING">>, <<"BARGE_IN", "IDLE">> }

\* C1: transition(T) called in state S returns true iff <<S, T>> is in the
\* allowed table, and on true the current state becomes T.
C1_TransitionIffAllowed ==
    [][ /\ lastCall'.from = state
        /\ lastCall'.result = (<<state, lastCall'.to>> \in AllowedPairs)
        /\ lastCall'.result => state' = lastCall'.to ]_vars

\* a request for SPEAKING rejected in BARGE_IN, after three accepted transitions
C1_Witness ==
    /\ state = "BARGE_IN"
    /\ Len(history) = 3
    /\ lastCall = [from |-> "BARGE_IN", to |-> "SPEAKING", result |-> FALSE,
                   notified |-> <<>>]

\* C2: a rejected transition request changes neither the state nor the
\* history and invokes no notification.
C2_RejectedNoSideEffect ==
    [][ lastCall'.result = FALSE =>
            /\ state' = state
            /\ history' = history
            /\ lastCall'.notified = <<>> ]_vars

\* SPEAKING requested in IDLE, with two transitions already recorded
C2_Witness ==
    /\ state = "IDLE"
    /\ Len(history) = 2
    /\ lastCall.from = "IDLE"
    /\ lastCall.to = "SPEAKING"
    /\ lastCall.result = FALSE

\* C3: in SPEAKING, a partial transcript of trimmed length >= 3 that arrives
\* with no trigger honoured within the debounce window (the detector honours
\* the trigger: lastBargeIn changes) interrupts the AI: playback is halted and
\* the state becomes BARGE_IN.
C3_PartialTranscriptInterrupts ==
    [][ (state = "SPEAKING" /\ lastBargeIn' # lastBargeIn) =>
            /\ state' = "BARGE_IN"
            /\ sounding' = {}
            /\ audioQueue' = <<>> ]_vars

\* C4: handleBargeIn in SPEAKING stops and clears the playing node, empties
\* the queue and enters BARGE_IN in one step; the grace callback that finds
\* the state still BARGE_IN moves it to LISTENING.
C4_BargeInAtomic ==
    /\ [][ (BargeInStep /\ state = "SPEAKING") =>
              /\ state' = "BARGE_IN"
              /\ audioQueue' = <<>>
              /\ currentSourceNode' = NoNode
              /\ ~isPlaying'
              /\ currentSourceNode \notin sounding' ]_vars
    /\ [][ (GraceStep /\ state = "BARGE_IN") => state' = "LISTENING" ]_vars

\* a barge-in stopped a playing node and its grace callback ran in BARGE_IN
C4_Witness ==
    /\ "BARGE_IN" \in firedIn
    /\ state = "LISTENING"
    /\ endedPending # {}
    /\ lifecycle = 1

C6_StaleChunksDiscarded ==
    \A b \in Range(audioQueue) \cup sounding : b[1] \notin stale

\* C7: the state is SPEAKING iff a buffer is playing or queued.
C7_SpeakingIffAudio ==
    (state = "SPEAKING") <=> (sounding # {} \/ audioQueue # <<>>)

\* C8: at most one buffer plays, isPlaying and currentSourceNode designate
\* exactly that buffer, and the playing buffer is not in the queue.
C8_OneBufferPlaying ==
    /\ Cardinality(sounding) <= 1
    /\ isPlaying <=> sounding # {}
    /\ sounding # {} => sounding = {currentSourceNode}
    /\ \A b \in sounding : b \notin Range(audioQueue)

\* C9: with no barge-in or stop so far, every step keeps the FIFO discipline:
\* a buffer is pushed at the tail, the buffer that starts is the head of the
\* queue and leaves it, it starts only when nothing else is playing, and
\* playback is idle exactly when nothing plays, which needs an empty queue.
C9_FifoPlayback ==
    [][ ~cancelled' =>
          LET started == sounding' \ sounding
          IN  /\ Cardinality(sounding') <= 1
              /\ \E add \in {<<>>} \cup {<<b>> : b \in Buffers},
                    st \in {<<>>} \cup {<<x>> : x \in started} :
                      /\ started # {} => st # <<>>
                      /\ audioQueue \o add = st \o audioQueue'
              /\ started # {} => sounding' = started
              /\ sounding' = {} => (audioQueue' = <<>> /\ ~isPlaying')
              /\ sounding' # {} => (isPlaying' /\ sounding' = {currentSourceNode'}) ]_vars

\* the first buffer of the stream plays while two more wait, nothing cancelled
C9_Witness ==
    /\ ~cancelled
    /\ sounding = {Buffer(1, 1)}
    /\ audioQueue = <<Buffer(1, 2), Buffer(1, 3)>>

\* C10: once no call, stream or timer of a begun turn is outstanding, the
\* state is LISTENING or IDLE.
C10_LandsInStableState ==
    ( /\ \E t \in Turns : pc[t] \in Returned
      /\ \A t \in Turns : pc[t] \in {"idle"} \cup Returned
      /\ timers = {} )
    => state \in {"LISTENING", "IDLE"}

\* C11: every recorded entry into BARGE_IN is from SPEAKING; while the state
\* is BARGE_IN a grace callback is pending, BARGE_IN is left only for
\* LISTENING or IDLE, no grace callback leaves the state in BARGE_IN, and a
\* BARGE_IN whose callback falls within the modelled clock is followed by
\* LISTENING or IDLE.
C11_BargeInFromSpeakingAndLeft ==
    /\ [](\A i \in 1..Len(history) :
              history[i].to = "BARGE_IN" => history[i].from = "SPEAKING")
    /\ [](state = "BARGE_IN" => timers # {})
    /\ [][ (state = "BARGE_IN" /\ state' # state) =>
               state' \in {"LISTENING", "IDLE"} ]_vars
    /\ [][ GraceStep => state' # "BARGE_IN" ]_vars
    /\ ( (state = "BARGE_IN" /\ \A d \in timers : d <= StartTime + MaxTicks * TickMs)
            ~> state \in {"LISTENING", "IDLE"} )

\* BARGE_IN was entered from SPEAKING and the state is LISTENING again with
\* the grace callback still pending: a finishing stream got there first
C11_Witness ==
    /\ \E i \in 1..Len(history) : history[i].to = "BARGE_IN"
    /\ state = "LISTENING"
    /\ timers # {}
    /\ "BARGE_IN" \notin firedIn

\* C12: a chat call that fails notifies onError exactly once for its turn,
\* issues no TTS request, and leaves the state LISTENING, whatever the state
\* was when the failure arrived.
C12_ChatFailure ==
    /\ [][ \A t \in Turns :
             (pc[t] = "chat" /\ pc'[t] = "caught") =>
                 /\ obs[t].onError = 0
                 /\ obs'[t].onError = 1
                 /\ obs'[t].tts = 0
                 /\ state' = "LISTENING" ]_vars
    /\ [](\A t \in Turns :
             (pc[t] = "caught" /\ obs[t].gotId = "none") =>
                 (obs[t].onError = 1 /\ obs[t].tts = 0))

\* the chat call of turn 2 failed while turn 1 held the state in SPEAKING
C12_Witness ==
    /\ pc[1] = "ttsFetch"
    /\ pc[2] = "caught"
    /\ obs[2].onError = 1
    /\ lastCall = [from |-> "SPEAKING", to |-> "LISTENING", result |-> TRUE,
                   notified |-> Notifications("LISTENING", callbacks, Len(history))]
    /\ state = "LISTENING"

\* C13: a TTS call that fails, at the fetch or in mid-stream, notifies onError
\* exactly once, leaves the state LISTENING, and leaves the queue and the
\* playing buffer as they were.
C13_TtsFailure ==
    /\ [][ \A t \in Turns :
             (pc[t] \in {"ttsFetch", "read"} /\ pc'[t] = "caught") =>
                 /\ obs[t].onError = 0
                 /\ obs'[t].onError = 1
                 /\ state' = "LISTENING"
                 /\ audioQueue' = audioQueue
                 /\ sounding' = sounding
                 /\ currentSourceNode' = currentSourceNode
                 /\ isPlaying' = isPlaying ]_vars
    /\ [](\A t \in Turns : obs[t].onError <= 1)

\* the stream failed after two chunks: one plays, the other is still queued
C13_Witness ==
    /\ pc[1] = "caught"
    /\ nChunks[1] = 2
    /\ sounding = {Buffer(1, 1)}
    /\ audioQueue = <<Buffer(1, 2)>>
    /\ obs[1].onError = 1
    /\ state = "LISTENING"

\* C14: with no barge-in, stop or decode failure, the k-th buffer enqueued is
\* the k-th chunk of the stream, put at the tail of the queue (or played at
\* once when nothing plays); onAudioStart precedes the first chunk and is
\* notified once; the end marker notifies onAudioComplete once and leaves
\* the state LISTENING; a stream of three chunks has then enqueued three.
C14_StreamInOrder ==
    /\ [][ \A t \in Turns :
             (~cancelled' /\ obs[t].dropped = 0 /\ obs'[t].pushed # obs[t].pushed) =>
                 LET b == Buffer(t, obs'[t].pushed)
                 IN  /\ obs'[t].pushed = obs[t].pushed + 1
                     /\ \/ audioQueue' = Append(audioQueue, b)
                        \/ /\ audioQueue = <<>> /\ sounding = {}
                           /\ audioQueue' = <<>> /\ sounding' = {b} ]_vars
    /\ [][ \A t \in Turns :
             (pc[t] = "read" /\ pc'[t] = "done") =>
                 /\ obs'[t].onAudioComplete = obs[t].onAudioComplete + 1
                 /\ state' = "LISTENING" ]_vars
    /\ [](\A t \in Turns :
             /\ obs[t].onAudioStart <= 1
             /\ nChunks[t] > 0 => obs[t].onAudioStart = 1
             /\ (pc[t] = "done" /\ obs[t].tts = 1) => obs[t].onAudioComplete = 1
             /\ (pc[t] = "done" /\ obs[t].tts = 1 /\ ~cancelled /\ obs[t].dropped = 0)
                    => (obs[t].pushed = nChunks[t] /\ obs[t].onError = 0))

\* three chunks and the end marker arrived: three buffers were enqueued, the
\* first has finished, and the state is LISTENING
C14_Witness ==
    /\ pc[1] = "done"
    /\ nChunks[1] = 3
    /\ obs[1].pushed = 3
    /\ obs[1].dropped = 0
    /\ obs[1].onAudioComplete = 1
    /\ ~cancelled
    /\ sounding = {Buffer(1, 2)}
    /\ audioQueue = <<Buffer(1, 3)>>
    /\ state = "LISTENING"

\* a step in which stop() ran, and one in which start() ran
StopStep == lifecycle' # lifecycle /\ startResult' = startResult
StartStep == startResult' # startResult

\* C15: when the chat request of a final transcript with non-empty trimmed
\* text is issued, the state machine is in THINKING, whatever the state was
\* when the transcript arrived.
C15_ThinkingWhenChatIssued ==
    [][ \A t \in Turns :
          (pc[t] = "idle" /\ pc'[t] = "chat") => state' = "THINKING" ]_vars

\* C16: a chat request carries the stored conversation id, which is null
\* until a response has arrived; a successful response stores the id it
\* returns; a failed chat call, and every other step, leaves the stored id
\* unchanged.
C16_ConversationIdCarried ==
    /\ [][ \A t \in Turns :
             (pc[t] = "idle" /\ pc'[t] = "chat") => obs'[t].chatId = conversationId ]_vars
    /\ [][ \A t \in Turns :
             (pc[t] = "chat" /\ pc'[t] \in {"ttsFetch", "done"}) =>
                 /\ obs'[t].gotId = ResponseId(t)
                 /\ conversationId' = ResponseId(t) ]_vars
    /\ [][ (\A t \in Turns : ~(pc[t] = "chat" /\ pc'[t] \in {"ttsFetch", "done"}))
              => conversationId' = conversationId ]_vars
    /\ []((\A t \in Turns : obs[t].gotId = "none") => conversationId = "null")

\* turn 1 was answered with id X, turn 2 then failed after carrying X, and X
\* is still stored
C16_Witness ==
    /\ obs[1].chatId = "null"
    /\ obs[1].gotId = "X"
    /\ obs[2].chatId = "X"
    /\ pc[2] = "caught"
    /\ conversationId = "X"

\* C17: stop() resets the conversation id, so that the first chat request
\* after a restart carries a null id.
C17_StopResetsConversationId ==
    [][ StopStep => conversationId' = "null" ]_vars

\* C18: when stop() returns the state is IDLE, nothing plays, the queue is
\* empty, a context the coordinator created is released and a supplied one
\* is left as it was.
C18_StopLeavesNothingPlaying ==
    [][ StopStep =>
          /\ state' = "IDLE"
          /\ sounding' = {}
          /\ audioQueue' = <<>>
          /\ ~isPlaying'
          /\ currentSourceNode' = NoNode
          /\ audioContext' = IF configAudioContext THEN audioContext ELSE "null" ]_vars

\* C19: start() either acquires its resources, resolves and leaves the state
\* LISTENING, or notifies onError, rejects and leaves the state IDLE.
C19_StartSucceedsOrRejects ==
    [][ StartStep =>
          IF startResult'.acquired
          THEN /\ startResult'.outcome = "resolved"
               /\ state' = "LISTENING"
          ELSE /\ startResult'.onError >= 1
               /\ startResult'.outcome = "rejected"
               /\ state' = "IDLE" ]_vars

\* C20: the history never holds more than 50 entries, and every accepted
\* transition is recorded at its end, the oldest entry making room once 50
\* are held: after the 51st the first is gone and the rest keep their order.
C20_HistoryFifo ==
    /\ [](Len(history) <= 50)
    /\ [][ lastCall'.result =>
             LET e == history'[Len(history')]
             IN  /\ e.from = state
                 /\ e.to = state'
                 /\ history' = IF Len(history) < 50
                               THEN Append(history, e)
                               ELSE Append(Tail(history), e) ]_vars

\* 51 transitions round the circuit: the first entry (IDLE to LISTENING) has
\* gone, the second is now the oldest and the 51st is the newest
C20_Witness ==
    /\ Len(history) = 50
    /\ history[1] = [from |-> "LISTENING", to |-> "THINKING", reason |-> "undefined"]
    /\ history[2] = [from |-> "THINKING", to |-> "SPEAKING", reason |-> "undefined"]
    /\ history[50] = [from |-> "IDLE", to |-> "LISTENING", reason |-> "undefined"]
    /\ state = "LISTENING"
    /\ lastCall.result

\* C21 as claimed: a transition request to IDLE is accepted in every state.
C21_IdleAlwaysAccepted ==
    [][ lastCall'.to = "IDLE" => lastCall'.result ]_vars

\* C21, amended: a transition request to IDLE is accepted in every state but
\* IDLE, where it is refused; either way the state is IDLE afterwards.
C21_IdleAcceptedOutsideIdle ==
    [][ lastCall'.to = "IDLE" =>
            /\ lastCall'.result = (state # "IDLE")
            /\ state' = "IDLE" ]_vars

\* IDLE was requested in BARGE_IN and accepted
C21_Witness ==
    /\ lastCall.from = "BARGE_IN"
    /\ lastCall.to = "IDLE"
    /\ lastCall.result
    /\ state = "IDLE"

\* a step in which reset() ran: IDLE was requested and, if accepted, recorded
\* with the reason "Reset"
ResetStep ==
    /\ lastCall'.to = "IDLE"
    /\ lastCall'.result => history'[Len(history')].reason = "Reset"

\* C22: reset() leaves the machine in IDLE; from a state other than IDLE it
\* records one transition to IDLE with reason "Reset"; in IDLE (so also as a
\* second consecutive reset) it changes neither state nor history and
\* notifies nobody.
C22_ResetIdempotent ==
    [][ ResetStep =>
            /\ state' = "IDLE"
            /\ state # "IDLE" =>
                  history' = Append(history, [from |-> state, to |-> "IDLE",
                                               reason |-> "Reset"])
            /\ state = "IDLE" =>
                  /\ history' = history
                  /\ lastCall'.notified = <<>> ]_vars

\* reset() in SPEAKING was recorded, and the reset() after it did nothing
C22_Witness ==
    /\ state = "IDLE"
    /\ Len(history) = 3
    /\ history[3] = [from |-> "SPEAKING", to |-> "IDLE", reason |-> "Reset"]
    /\ lastCall = [from |-> "IDLE", to |-> "IDLE", result |-> FALSE, notified |-> <<>>]

\* C23: an accepted transition notifies onStateChange first and then the
\* callback of the target state (none for IDLE); each sees the new state and
\* the history with the new entry already appended.
C23_NotificationOrder ==
    [][ lastCall'.result =>
          LET n == lastCall'.notified
              specific == CASE state' = "BARGE_IN"  -> <<"onBargeIn">>
                            [] state' = "LISTENING" -> <<"onListening">>
                            [] state' = "SPEAKING"  -> <<"onSpeaking">>
                            [] state' = "THINKING"  -> <<"onThinking">>
                            [] state' = "IDLE"      -> <<>>
          IN  /\ [i \in 1..Len(n) |-> n[i].cb] = <<"onStateChange">> \o specific
              /\ \A i \in 1..Len(n) :
                    /\ n[i].sawState = state'
                    /\ n[i].sawHistLen = Len(history) + 1
                    /\ history'[n[i].sawHistLen].to = state' ]_vars

\* BARGE_IN was entered as the third transition: onStateChange, then onBargeIn
C23_Witness ==
    /\ state = "BARGE_IN"
    /\ lastCall.result
    /\ lastCall.notified =
          << [cb |-> "onStateChange", sawState |-> "BARGE_IN", sawHistLen |-> 3],
             [cb |-> "onBargeIn", sawState |-> "BARGE_IN", sawHistLen |-> 3] >>

\* a step in which the client called the detector's method m
DetectorStep(m) ==
    /\ detCall'.method = m
    /\ detCall'.at = now
    /\ now' = now
    /\ onBargeIn' = onBargeIn

\* C24: honoured triggers, whatever their source, are at least debounceMs
\* apart; a step taken less than debounceMs after the last honoured trigger
\* calls nothing back and leaves the timestamp alone; every callback belongs
\* to a trigger honoured in the same step.
C24_Debounced ==
    /\ [][ lastBargeIn' # lastBargeIn =>
              /\ now - lastBargeIn >= debounceMs
              /\ lastBargeIn' = now ]_vars
    /\ [][ now - lastBargeIn < debounceMs =>
              /\ lastBargeIn' = lastBargeIn
              /\ delivered' = delivered ]_vars
    /\ [][ delivered' # delivered =>
              /\ lastBargeIn' # lastBargeIn
              /\ Len(delivered') = Len(delivered) + 1
              /\ SubSeq(delivered', 1, Len(delivered)) = delivered
              /\ delivered'[Len(delivered')].timestamp = now ]_vars
    /\ [](\A i, j \in 1..Len(delivered) :
              i < j => delivered[j].timestamp - delivered[i].timestamp >= debounceMs)

\* a loud chunk called back at StartTime; the combined attempt 100 ms later
\* was dropped
C24_Witness ==
    /\ lastBargeIn = StartTime
    /\ Len(delivered) = 1
    /\ delivered[1].reason = "energy"
    /\ detCall.method = "processCombined"
    /\ detCall.at = StartTime + 100
    /\ detCall.energy > energyThreshold
    /\ Len(trim(detCall.text)) >= minTranscriptLength

\* C25: with a callback registered, a processAudioChunk call that leaves the
\* window average above the threshold calls back exactly when at least
\* debounceMs have passed since the last callback (or there was none);
\* callbacks are at least debounceMs apart.
C25_OncePerWindow ==
    /\ [][ /\ DetectorStep("processAudioChunk")
           /\ onBargeIn = "observer"
           /\ getAverageEnergy(energyHistory') > energyThreshold
           /\ delivered # <<>>
           => LET t == delivered[Len(delivered)].timestamp
              IN  IF now < t + debounceMs
                  THEN delivered' = delivered
                  ELSE /\ Len(delivered') = Len(delivered) + 1
                       /\ delivered'[Len(delivered')].timestamp = now
                       /\ delivered'[Len(delivered')].reason = "energy" ]_vars
    /\ [](\A i \in 1..Len(delivered) - 1 :
              delivered[i + 1].timestamp >= delivered[i].timestamp + debounceMs)

\* loud chunks called back at StartTime and again 300 ms later
C25_Witness ==
    /\ Len(delivered) = 2
    /\ delivered[1].reason = "energy" /\ delivered[1].timestamp = StartTime
    /\ delivered[2].reason = "energy" /\ delivered[2].timestamp = StartTime + debounceMs
    /\ detCall.method = "processAudioChunk"
    /\ detCall.at = StartTime + debounceMs

\* C26: a non-final processTranscript stores the text and, the debounce
\* permitting, triggers with reason "transcript" and confidence 0.8 exactly
\* when the trimmed text has at least minTranscriptLength characters; a final
\* one empties the stored text and never triggers.
C26_ProcessTranscript ==
    [][ DetectorStep("processTranscript") =>
          LET text == detCall'.text
              long == Len(trim(text)) >= minTranscriptLength
          IN  IF ~detCall'.isFinal
              THEN /\ partialTranscript' = text
                   /\ now - lastBargeIn >= debounceMs =>
                         /\ (lastBargeIn' = now) <=> long
                         /\ ~long => delivered' = delivered
                         /\ long /\ onBargeIn = "observer" =>
                               delivered' = Append(delivered,
                                   [timestamp |-> now, reason |-> "transcript",
                                    confidence |-> 80])
              ELSE /\ partialTranscript' = <<>>
                   /\ lastBargeIn' = lastBargeIn
                   /\ delivered' = delivered ]_vars

\* the partial transcript "hey" was stored and called back
C26_Witness ==
    /\ detCall.method = "processTranscript"
    /\ ~detCall.isFinal
    /\ detCall.at = now
    /\ partialTranscript = <<"h", "e", "y">>
    /\ delivered = << [timestamp |-> now, reason |-> "transcript", confidence |-> 80] >>

\* C27: the detector's reset() empties the energy window and the stored
\* partial transcript and keeps the last-trigger timestamp, so the step after
\* a reset(), if taken within debounceMs of the last honoured trigger, calls
\* nothing back.
C27_ResetKeepsDebounce ==
    /\ [][ DetectorStep("reset") =>
              /\ energyHistory' = <<>>
              /\ partialTranscript' = <<>>
              /\ lastBargeIn' = lastBargeIn
              /\ delivered' = delivered ]_vars
    /\ [][ detCall.method = "reset" /\ now - lastBargeIn < debounceMs =>
              /\ lastBargeIn' = lastBargeIn
              /\ delivered' = delivered ]_vars

\* reset() was called 100 ms after a trigger that called back
C27_Witness ==
    /\ detCall.method = "reset"
    /\ detCall.at = lastBargeIn + 100
    /\ delivered # <<>>
    /\ energyHistory = <<>>
    /\ partialTranscript = <<>>

\* the speech recogniser delivers the transcript event (text, isFinal)
TranscriptArrives(text, isFinal) ==
    IF isFinal THEN FinalTranscript(text) ELSE PartialTranscript(text)

C29_BlankResponse ==
    /\ [][ \A t \in Turns, text \in Texts :
              (ChatReturns(t, text, ResponseId(t)) /\ trim(text) = <<>>) =>
                 /\ pc'[t] = "done"
                 /\ obs'[t].tts = 0
                 /\ obs'[t].onAudioStart = 0
                 /\ obs'[t].onAudioComplete = 0
                 /\ obs'[t].pushed = 0
                 /\ lastCall'.to = "LISTENING"
                 /\ state' = "LISTENING"
                 /\ <<audioQueue', sounding', isPlaying', currentSourceNode'>>
                       = <<audioQueue, sounding, isPlaying, currentSourceNode>> ]_vars
    /\ [](\A t \in Turns :
             (pc[t] = "done" /\ obs[t].tts = 0) =>
                 /\ obs[t].onAudioStart = 0
                 /\ obs[t].onAudioComplete = 0
                 /\ obs[t].pushed = 0
                 /\ nChunks[t] = 0)

\* the chat response was blank: THINKING went straight to LISTENING
C29_Witness ==
    /\ pc[1] = "done"
    /\ obs[1].gotId = ResponseId(1)
    /\ obs[1].tts = 0
    /\ lastCall.from = "THINKING"
    /\ lastCall.to = "LISTENING"
    /\ lastCall.result
    /\ state = "LISTENING"

\* C30: dropping a chunk (malformed line or failed decode) enqueues nothing,
\* notifies no error, requests no transition and leaves the stream being
\* read; with no barge-in or stop, the chunks decoded after it still go to
\* the tail of the queue in stream order, and the end marker then notifies
\* onAudioComplete with every chunk either enqueued or dropped.
C30_BadChunkDropped ==
    /\ [][ \A t \in Turns :
              obs'[t].dropped # obs[t].dropped =>
                 /\ obs'[t].dropped = obs[t].dropped + 1
                 /\ obs'[t].pushed = obs[t].pushed
                 /\ obs'[t].onError = obs[t].onError
                 /\ pc'[t] = "read"
                 /\ <<state', history', lastCall'>> = <<state, history, lastCall>>
                 /\ <<audioQueue', sounding', isPlaying', currentSourceNode'>>
                       = <<audioQueue, sounding, isPlaying, currentSourceNode>> ]_vars
    /\ [][ \A t \in Turns :
              (~cancelled' /\ obs[t].dropped > 0 /\ obs'[t].pushed # obs[t].pushed) =>
                 LET b == Buffer(t, nChunks[t])
                 IN  /\ obs'[t].pushed = obs[t].pushed + 1
                     /\ \/ audioQueue' = Append(audioQueue, b)
                        \/ /\ audioQueue = <<>> /\ sounding = {}
                           /\ audioQueue' = <<>> /\ sounding' = {b} ]_vars
    /\ [](\A t \in Turns :
             (pc[t] = "done" /\ obs[t].dropped > 0 /\ ~cancelled) =>
                 /\ obs[t].onAudioComplete = 1
                 /\ obs[t].onError = 0
                 /\ obs[t].pushed + obs[t].dropped = nChunks[t])

\* the second of three chunks was dropped: the first plays, the third waits,
\* and the end marker was notified
C30_Witness ==
    /\ pc[1] = "done"
    /\ nChunks[1] = 3
    /\ obs[1].pushed = 2
    /\ obs[1].dropped = 1
    /\ obs[1].onError = 0
    /\ obs[1].onAudioComplete = 1
    /\ ~cancelled
    /\ sounding = {Buffer(1, 1)}
    /\ audioQueue = <<Buffer(1, 3)>>

C40_CombinedTrigger ==
    /\ [][ DetectorStep("processCombined") /\ now - lastBargeIn >= debounceMs =>
              LET both == /\ detCall'.energy > energyThreshold
                          /\ Len(trim(detCall'.text)) >= minTranscriptLength
              IN  /\ (lastBargeIn' = now) <=> both
                  /\ ~both => delivered' = delivered
                  /\ both /\ onBargeIn = "observer" =>
                        /\ Len(delivered') = Len(delivered) + 1
                        /\ delivered'[Len(delivered')].reason = "combined"
                        /\ delivered'[Len(delivered')].timestamp = now ]_vars
    /\ [](\A i \in 1..Len(delivered) :
             /\ delivered[i].confidence >= 0
             /\ delivered[i].confidence <= 100
             /\ delivered[i].reason = "combined" =>
                   delivered[i].confidence > 80)

\* a combined event and an energy event of middling confidence were called back
C40_Witness ==
    /\ Len(delivered) = 2
    /\ delivered[1].reason = "combined"
    /\ delivered[1].confidence = 95
    /\ delivered[2].reason = "energy"
    /\ delivered[2].confidence = 62

\* C36: the retained history is a chain: each entry starts where the entry
\* before it ended, no entry stays where it started, and the last entry ends
\* in the current state.
C36_HistoryChain ==
    /\ \A i \in 1..Len(history) - 1 : history[i].to = history[i + 1].from
    /\ \A i \in 1..Len(history) : history[i].from # history[i].to
    /\ history # <<>> => history[Len(history)].to = state

\* the history is full and has lost its first entries
C36_Witness ==
    /\ Len(history) = maxHistorySize
    /\ history[1].from = "LISTENING"
    /\ history[maxHistorySize].to = "LISTENING"
    /\ state = "LISTENING"

\* C34: once stop() has returned and until the next start(), the state is
\* IDLE, the queue is empty and nothing plays.
C34_StoppedStaysIdle ==
    (cancelled /\ stt = "null") =>
        /\ state = "IDLE"
        /\ audioQueue = <<>>
        /\ sounding = {}

\* the turns whose chat request or TTS stream is outstanding
InFlight == {t \in Turns : pc[t] \in {"chat", "ttsFetch", "read", "decode"}}

\* C35: at most one turn has a chat request or a TTS stream outstanding, and
\* the queue never holds buffers of two turns.
C35_OneTurnInFlight ==
    /\ Cardinality(InFlight) <= 1
    /\ \A i, j \in 1..Len(audioQueue) : audioQueue[i][1] = audioQueue[j][1]

\* C37: in continuous mode, a session that ended without stop() is followed
\* by a restart: isListening becomes true again.
C37_AutoRestart ==
    (continuous /\ endedAlone) ~> isListening

Retryable == {"429", "500", "ECONNREFUSED"}

\* C38: fn is invoked at most maxRetries = 3 times; the first result is
\* returned at once; an error that is not retryable is thrown by the
\* invocation that met it, with no sleep and no further invocation; after
\* three retryable errors the third is thrown; nothing follows a return or
\* a throw.
C38_RetryTerminates ==
    /\ [](Len(retryCalls) <= 3)
    /\ [](\A i \in 1..Len(retryCalls) - 1 : retryCalls[i] \in Retryable)
    /\ [](retryPc \in {"returned", "thrown"} <=> retryOutcome.kind # "none")
    /\ [](retryPc = "returned" =>
             /\ retryCalls[Len(retryCalls)] = "ok"
             /\ retryOutcome = [kind |-> "returned",
                                value |-> [kind |-> "ok", call |-> Len(retryCalls)]])
    /\ [](retryPc = "thrown" =>
             LET n == Len(retryCalls)
             IN  /\ n >= 1
                 /\ retryCalls[n] # "ok"
                 /\ retryOutcome = [kind |-> "thrown",
                                    value |-> [kind |-> retryCalls[n], call |-> n]]
                 /\ retryCalls[n] \in Retryable => n = 3
                 /\ Len(retryDelays) = IF retryCalls[n] \in Retryable THEN n ELSE n - 1)
    /\ [](retryPc \in {"calling", "sleeping"} => Len(retryCalls) < 3 \/ retryPc = "sleeping")
    /\ [][ (retryPc \in {"returned", "thrown"}) => retryVars' = retryVars ]_vars

\* two server errors, then a bad request: thrown by the third invocation
C38_Witness ==
    /\ retryPc = "thrown"
    /\ retryCalls = <<"500", "429", "400">>
    /\ retryDelays = <<1000, 2000>>
    /\ retryOutcome.value = [kind |-> "400", call |-> 3]

\* C39: a simulateSpeech call made while an earlier simulation is running leaves
\* the earlier one without effect: until the new simulation's estimated duration
\* has elapsed, isSpeaking is set and the jaw is written by the new loop only
C39_EarlierCancelled ==
    LET n == Len(sims) IN
    (/\ n >= 1
     /\ sims[n].overlapped
     /\ speechNow < sims[n].startTime + sims[n].estimatedDuration)
        => isSpeaking /\ jawWriter = n

\* the conditions of the classifier in their priority order, and the poses they select
C31_Poses == <<"silence", "sibilant", "openVowel", "closedConsonant", "midVowel",
               "roundedVowel", "neutral">>

C31_Matches(i, low, mid, high, volume) ==
    CASE i = 1 -> volume < 1
      [] i = 2 -> high > 6
      [] i = 3 -> low > 7
      [] i = 4 -> mid > 5 /\ volume > 3
      [] i = 5 -> mid > 4 /\ high > 3
      [] i = 6 -> low > 4 /\ mid > 3
      [] i = 7 -> TRUE

\* the poses whose condition matches and none of whose predecessors' does
C31_FirstMatches(low, mid, high, volume) ==
    {i \in 1..7 : /\ C31_Matches(i, low, mid, high, volume)
                  /\ \A j \in 1..(i - 1) : ~C31_Matches(j, low, mid, high, volume)}

\* C31: the classifier is first-match-wins over the fixed priority order (silence,
\* sibilant, open vowel, closed consonant, mid vowel, rounded vowel, else neutral
\* scaled by the volume), and every reading selects exactly one pose
C31_FirstMatchWins ==
    lipPolls > 0 =>
        LET first == C31_FirstMatches(lipLast.low, lipLast.mid, lipLast.high, lipLast.volume) IN
        /\ Cardinality(first) = 1
        /\ \A i \in first : lipLast.weights = Pose(C31_Poses[i], lipLast.volume)
        /\ Cardinality({i \in 1..7 : lipLast.weights = Pose(C31_Poses[i], lipLast.volume)}) = 1

\* a reading that matches the conditions of five poses is classified as the first of them
C31_Witness ==
    /\ lipPolls > 0
    /\ lipLast.volume = 4 /\ lipLast.high = 7 /\ lipLast.low = 8 /\ lipLast.mid = 6
    /\ Cardinality({i \in 1..6 : C31_Matches(i, 8, 6, 7, 4)}) = 5
    /\ lipLast.weights = Pose("sibilant", 4)

\* a getCurrentViseme() call
LipPoll == lipPolls' = lipPolls + 1

\* C32: on every poll each target named by the previous or the classified weights
\* is kept, moves from its previous value toward the classified value (toward 0
\* if the classified set does not name it) without passing it, and stays in [0,1];
\* so polls that classify alike move it monotonically
C32_Smoothing ==
    [][LipPoll =>
        \A key \in DOMAIN previousWeights \cup DOMAIN lipLast'.weights :
            LET oldValue == WeightOr0(previousWeights, key)
                target == WeightOr0(lipLast'.weights, key)
            IN /\ key \in DOMAIN previousWeights'
               /\ previousWeights'[key] >= 0 /\ previousWeights'[key] <= One
               /\ oldValue <= target =>
                    oldValue <= previousWeights'[key] /\ previousWeights'[key] <= target
               /\ oldValue >= target =>
                    target <= previousWeights'[key] /\ previousWeights'[key] <= oldValue
               /\ (oldValue # target /\ smoothingFactor > 0) => previousWeights'[key] # oldValue
    ]_vars

\* sibilant, then silence twice: the funnel, named by the first poll only, has gone
\* from 0.06 to 0.042 to 0.0294, and the closed mouth from 0 to 0.3 to 0.51
C32_Witness ==
    /\ lipPolls = 3
    /\ lipLast.same
    /\ lipLast.weights = Pose("silence", 0)
    /\ "mouthFunnel" \in DOMAIN lipLast.before
    /\ lipLast.before["mouthFunnel"] = 42 * (One \div 1000)
    /\ previousWeights["mouthFunnel"] = 294 * (One \div 10000)
    /\ lipLast.before["mouthClose"] = 3 * Tenth
    /\ previousWeights["mouthClose"] = 51 * Hundredth

====
